---- MODULE Spec2Model ----
(***************************************************************************)
(* State-machine model of the WebShapp live win-probability engine:        *)
(*   - the session registry and replay engine (app/services/game_engine),  *)
(*   - the websocket fan-out manager (backend/ws),                         *)
(*   - the periodic job scheduler (backend/workers/scheduler),             *)
(*   - the ingestion pipeline (backend/workers/watcher, backend/cache,     *)
(*     engine/meta_model).                                                 *)
(* Every component runs on one asyncio event loop: a step of the model is  *)
(* the code a coroutine runs between two suspension points.                *)
(***************************************************************************)
EXTENDS Integers, Sequences, FiniteSets, TLC

\* ------------------------------------------------------------------ bounds
MaxSessions == 2      \* GameSession objects constructed by ingest in one run
MaxConns == 1         \* FakeWebSocket connections registered in one run
MaxPlays == 2         \* plays of the longest session that is replayed
MaxSockets == 2       \* websockets accepted by the endpoint in one run
MaxBroadcasts == 1    \* ConnectionManager.broadcast calls in one run
MaxJobs == 2          \* Job objects constructed by add_job in one run
MaxTasks == 2         \* job loops created by start in one run
MaxRuns == 2          \* units of work one job loop begins
MaxCalls == 2         \* service-layer tasks created and not yet run
MaxLimit == 3         \* largest limit passed to search
MaxPackets == 2       \* payloads the upstream service publishes in one run
MaxUpdates == 3       \* MetaModel.update calls made on one model directly
MaxSamples == 3       \* samples in the longest latency list that is enumerated
MaxSample == 3        \* largest latency sample enumerated, in ms
MaxFeatures == 3      \* features of the largest play that is explained

\* --------------------------------------------------------- program constants
max_queue_depth == 256
timeline_maxlen == 512
\* MetaModelConfig.alpha = 0.15 as the fraction AlphaNum / AlphaDen
AlphaNum == 3
AlphaDen == 20
\* settings.prediction_delay_seconds and settings.shap_delay_seconds, in ms
prediction_delay_ms == 20
shap_delay_ms == 50
\* settings.shap_top_k
shap_top_k == 5

Contests == {"g1"}
Keys == {"k1", "k2"}
NoSession == 0

\* A play list is the list of its play ids, here the positions 1..n.
PlayList(n) == [i \in 1..n |-> i]

\* The play lists offered to ingest: the empty list, a list of one play and a
\* list that is longer than settings.max_queue_depth.
IngestPlayLists == {PlayList(0), PlayList(1), PlayList(max_queue_depth + 1)}

\* The sessions that are replayed: every play list up to the bound.
ReplayPlayLists == {PlayList(n) : n \in 0..MaxPlays}

VARIABLES
  sessions,           \* GameEngine._sessions: contest id -> session object (0: none)
  idempotency_keys,   \* GameEngine._idempotency_keys
  session,            \* the GameSession objects, in order of construction
  messages,           \* FakeWebSocket.messages of every connection, in order of creation
  ret,                \* outcome of the call made by the last step
  ingested,           \* history: the (contest, key) pairs of ingests that created a session
  calls               \* tasks created by the service layer that have not run yet, in order

VARIABLES
  connections,        \* ConnectionManager._connections
  lock,               \* holder of ConnectionManager._lock (Free: not held)
  endpoint,           \* websocket_endpoint of each websocket: where it stands
  bc,                 \* each broadcast call: where it stands
  recipients,         \* each broadcast call: its snapshot of the membership
  send,               \* each broadcast call: the _safe_send task of each recipient
  inbox               \* each websocket: the payloads send_text delivered, in order

VARIABLES
  jobs,               \* Scheduler._jobs: the registered Job objects, in dict order
  job_objs,           \* every Job object constructed: its name and its _task (0: None)
  tasks,              \* every job loop created: its Job, where it stands, cancel requested
  running,            \* Scheduler._running
  stopper,            \* the stop() call: where it stands in its loop over the jobs
  called              \* the Scheduler method called by the last step

VARIABLES
  channel,            \* messages delivered to the listener's subscription, unread
  upstream,           \* payloads the upstream service has published so far
  listener,           \* redis_listener / handle_packet: the await it stands at
  raw,                \* handle_packet: the payload in hand
  msg,                \* handle_packet: the WinProbMsg returned by meta_model.update
  meta_state,         \* MetaModel._state: contest id -> smoothed value (Unset: no key)
  last_shap,          \* Redis keys game:{gid}:last_shap
  winprob,            \* Redis keys game:{gid}:winprob
  published,          \* messages published on PUBSUB_CHANNEL, in order
  shap_stream,        \* entries of the Redis stream STREAM_KEY, in order
  sent,               \* messages handed to ws.manager.broadcast, in order
  alpha,              \* MetaModelConfig.alpha of the model, as alpha / AlphaDen
  returned,           \* history: the messages MetaModel.update returned, in order
  log                 \* history: the steps handle_packet has taken, in order

varsEngine == <<sessions, idempotency_keys, session, messages, ret, ingested, calls>>
varsFanout == <<connections, lock, endpoint, bc, recipients, send, inbox>>

varsScheduler == <<jobs, job_objs, tasks, running, stopper, called>>
varsWatcher == <<channel, upstream, listener, raw, msg, meta_state, last_shap,
                 winprob, published, shap_stream, sent, alpha, returned, log>>

vars == <<varsEngine, varsFanout, varsScheduler, varsWatcher>>

\* What a step of one component leaves alone: the other components.
nonEngine == <<varsFanout, varsScheduler, varsWatcher>>
nonFanout == <<varsEngine, varsScheduler, varsWatcher>>
nonScheduler == <<varsEngine, varsFanout, varsWatcher>>
nonWatcher == <<varsEngine, varsScheduler>>

Objs == 1..Len(session)
Conns == 1..Len(messages)
NoCall == [op |-> "none"]

\* ---------------------------------------------------------------- GameSession
\* A session constructed without the _paused.set() of line 53: gate closed.
NewSession_gateClosed(gid, ps) ==
  [game_id |-> gid, plays |-> ps, index |-> 0, paused_set |-> FALSE,
   timeline |-> <<>>, latencies |-> <<>>, prediction_latencies |-> <<>>,
   connections |-> {}, task |-> "none", play |-> 0, recipients |-> {},
   live_tasks |-> 0]

\* GameSession.__init__: cursor 0, gate open (Event set), no task, empty history.
\* A latency list holds its samples in ms, in the order they were recorded.
NewSession(gid, ps) ==
  [game_id |-> gid, plays |-> ps, index |-> 0, paused_set |-> TRUE,
   timeline |-> <<>>, latencies |-> <<>>, prediction_latencies |-> <<>>,
   connections |-> {}, task |-> "none", play |-> 0, recipients |-> {},
   live_tasks |-> 0]

\* deque(maxlen=512).append: the oldest point is dropped when the deque is full.
TimelineAppend(tl, p) ==
  IF Len(tl) >= timeline_maxlen THEN Append(Tail(tl), p) ELSE Append(tl, p)

\* asyncio.gather over connection.send_json for the snapshot of connections:
\* every queue of the snapshot gets the payload once (Queue.put, unbounded).
Deliver(msgs, recips, m) ==
  [c \in DOMAIN msgs |-> IF c \in recips THEN Append(msgs[c], m) ELSE msgs[c]]

TaskLive(s) == s.task \notin {"none", "done"}

\* register without the send of line 70: the queue starts empty.
NewQueue_empty == <<>>

\* register lines 68-70: the queue of the new connection after the awaited
\* send_json of the game_state message (Queue.put on an unbounded queue does
\* not suspend, so nothing runs between the add and the put).
NewQueue == << <<"game_state", 0>> >>

\* GameSession.register: a new connection joins and gets the game_state message.
register(o) ==
  /\ Len(messages) < MaxConns
  /\ session' = [session EXCEPT ![o].connections = @ \cup {Len(messages) + 1}]
  /\ messages' = Append(messages, NewQueue)
  /\ ret' = NoCall
  /\ UNCHANGED <<sessions, idempotency_keys, ingested, calls, nonEngine>>

\* GameSession.unregister
unregister(o, c) ==
  /\ c \in session[o].connections
  /\ session' = [session EXCEPT ![o].connections = @ \ {c}]
  /\ ret' = NoCall
  /\ UNCHANGED <<sessions, idempotency_keys, messages, ingested, calls, nonEngine>>

\* start_replay without the test of line 81: every call creates a task.
ReplayRunning_never(s) == FALSE

\* start_replay line 81: self._replay_task and not self._replay_task.done()
ReplayRunning(s) == TaskLive(s)

\* A start_replay that puts the cursor back to 0 when it creates a task.
StartReplay_rewinds(s) ==
  IF ReplayRunning(s) THEN s
  ELSE [s EXCEPT !.task = "ready", !.live_tasks = @ + 1, !.index = 0]

\* start_replay lines 81-84 on the session s; live_tasks counts the replay
\* tasks of the session that were created and are not done.
StartReplay(s) ==
  IF ReplayRunning(s) THEN s ELSE [s EXCEPT !.task = "ready", !.live_tasks = @ + 1]

\* GameSession.start_replay: a task that is not done is returned as it is,
\* otherwise a new task is created (it first runs in a later loop iteration).
start_replay(o) ==
  /\ session' = [session EXCEPT ![o] = StartReplay(@)]
  /\ ret' = [op |-> "start_replay", o |-> o, created |-> ~ReplayRunning(session[o])]
  /\ UNCHANGED <<sessions, idempotency_keys, messages, ingested, calls, nonEngine>>

\* An Event.set that sets the flag and wakes nobody.
EventSet_noWake(s) == [s EXCEPT !.paused_set = TRUE]

\* asyncio.Event.set wakes the futures of the waiters; Event.clear only resets
\* the flag. A woken waiter returns from wait() without reading the flag again.
EventSet(s) ==
  [s EXCEPT !.paused_set = TRUE,
            !.task = IF s.task = "gate" /\ ~s.paused_set THEN "woken" ELSE @]

EventClear(s) == [s EXCEPT !.paused_set = FALSE]

\* set_paused lines 87-90 on the session s.
SetPaused(s, paused) == IF paused THEN EventClear(s) ELSE EventSet(s)

\* GameSession.set_paused
set_paused(o, paused) ==
  /\ session' = [session EXCEPT ![o] = SetPaused(@, paused)]
  /\ ret' = NoCall
  /\ UNCHANGED <<sessions, idempotency_keys, messages, ingested, calls, nonEngine>>

\* Dequeue with the cursor left where it is (line 97 forgotten).
Dequeue_keepsCursor(s) ==
  [s EXCEPT !.play = s.plays[s.index + 1], !.task = "pred_delay"]

\* Dequeue with the cursor advanced twice.
Dequeue_advancesTwice(s) ==
  [s EXCEPT !.play = s.plays[s.index + 1], !.index = s.index + 2, !.task = "pred_delay"]

\* _run_replay lines 96-100: take the play under the cursor, advance the
\* cursor, start the prediction delay.
Dequeue(s) ==
  [s EXCEPT !.play = s.plays[s.index + 1], !.index = s.index + 1, !.task = "pred_delay"]

\* The loop with the gate awaited before the test of the cursor.
LoopTest_gateFirst(s) ==
  IF ~s.paused_set THEN [s EXCEPT !.task = "gate"]
  ELSE IF s.index >= Len(s.plays) THEN [s EXCEPT !.task = "done", !.live_tasks = @ - 1]
  ELSE Dequeue(s)

\* _run_replay lines 94-97 on the session s: the while test, then the gate.
\* When the cursor is at the end the coroutine returns and the task is done.
LoopTest(s) ==
  IF s.index >= Len(s.plays) THEN [s EXCEPT !.task = "done", !.live_tasks = @ - 1]
  ELSE IF s.paused_set THEN Dequeue(s)
  ELSE [s EXCEPT !.task = "gate"]

\* _run_replay lines 94-95: the loop test, then the gate. An open gate does not
\* suspend the task, so the play is dequeued in the same step.
LoopHead(o) ==
  LET s == session[o] IN
  /\ s.task \in {"ready", "loop_sleep"}
  /\ session' = [session EXCEPT ![o] = LoopTest(s)]
  /\ ret' = NoCall
  /\ UNCHANGED <<sessions, idempotency_keys, messages, ingested, calls, nonEngine>>

\* The task resumes from _paused.wait() after Event.set resolved its future.
GateResume(o) ==
  /\ session[o].task = "woken"
  /\ session' = [session EXCEPT ![o] = Dequeue(@)]
  /\ ret' = NoCall
  /\ UNCHANGED <<sessions, idempotency_keys, messages, ingested, calls, nonEngine>>

\* One set of connections shared by every session.
Snapshot_shared(s) == UNION {session[o].connections : o \in Objs}

\* broadcast line 78: list(self._connections), the connections of the session.
Snapshot(s) == s.connections

\* GameSession.broadcast up to its await: the snapshot list(self._connections).
\* gather() of no awaitables is done at once, so the caller goes on to `next`.
BroadcastStart(s, sending, next) ==
  IF Snapshot(s) = {} THEN [s EXCEPT !.task = next, !.recipients = {}]
  ELSE [s EXCEPT !.task = sending, !.recipients = Snapshot(s)]

\* line 113-115 without subscribers: timeline broadcast, then the loop sleep.
TimelineStep(s) ==
  BroadcastStart([s EXCEPT !.timeline = TimelineAppend(@, s.play)], "tl_send", "loop_sleep")

\* The prediction broadcast without the sample of line 101.
RecordPrediction_skipped(s) == s

\* line 101: the prediction latency sample is appended.
RecordPrediction(s) ==
  [s EXCEPT !.prediction_latencies = Append(@, prediction_delay_ms)]

\* lines 101-102: the prediction delay is over; record it, broadcast prediction.
\* The sample recorded is the time the sleep of line 100 took: the replay does
\* not read it, and the delay asked for (pace 1) stands for it here.
PredictionReady(o) ==
  LET s == session[o] IN
  /\ s.task = "pred_delay"
  /\ session' = [session EXCEPT ![o] =
        BroadcastStart(RecordPrediction(s), "pred_send", "shap_compute")]
  /\ ret' = NoCall
  /\ UNCHANGED <<sessions, idempotency_keys, messages, ingested, calls, nonEngine>>

\* line 102-104: the prediction sends complete, the explanation goes to the executor.
PredictionSent(o) ==
  LET s == session[o] IN
  /\ s.task = "pred_send"
  /\ messages' = Deliver(messages, s.recipients, <<"prediction", s.play>>)
  /\ session' = [session EXCEPT ![o].task = "shap_compute", ![o].recipients = {}]
  /\ ret' = NoCall
  /\ UNCHANGED <<sessions, idempotency_keys, ingested, calls, nonEngine>>

\* lines 104-106: the executor returns the snapshot; record it, broadcast shap.
\* Without subscribers the broadcast does not suspend and line 108-115 follow.
\* The sample recorded is snapshot.latency_ms: the sleep of shap_delay_seconds
\* in ShapAdapter.compute stands for it here.
ShapReady(o) ==
  LET s == session[o]
      t == [s EXCEPT !.latencies = Append(@, shap_delay_ms)] IN
  /\ s.task = "shap_compute"
  /\ session' = [session EXCEPT ![o] =
        IF Snapshot(s) = {} THEN TimelineStep(t)
        ELSE BroadcastStart(t, "shap_send", "shap_send")]
  /\ ret' = NoCall
  /\ UNCHANGED <<sessions, idempotency_keys, messages, ingested, calls, nonEngine>>

\* lines 106-114: the shap sends complete; append the timeline point, broadcast it.
ShapSent(o) ==
  LET s == session[o] IN
  /\ s.task = "shap_send"
  /\ messages' = Deliver(messages, s.recipients, <<"shap", s.play>>)
  /\ session' = [session EXCEPT ![o] = TimelineStep(s)]
  /\ ret' = NoCall
  /\ UNCHANGED <<sessions, idempotency_keys, ingested, calls, nonEngine>>

\* lines 114-115: the timeline sends complete; sleep replay_loop_sleep.
TimelineSent(o) ==
  LET s == session[o] IN
  /\ s.task = "tl_send"
  /\ messages' = Deliver(messages, s.recipients, <<"timeline", s.play>>)
  /\ session' = [session EXCEPT ![o].task = "loop_sleep", ![o].recipients = {}]
  /\ ret' = NoCall
  /\ UNCHANGED <<sessions, idempotency_keys, ingested, calls, nonEngine>>

\* ----------------------------------------------------------------- GameEngine
\* The repeat test made on the contest id instead of the key.
IsRepeat_testsContest(gid, key) == gid \in idempotency_keys /\ sessions[gid] # NoSession

\* ingest line 127: the idempotent repeat.
IsRepeat(gid, key) == key \in idempotency_keys /\ sessions[gid] # NoSession

\* The depth test off by one: a list of max_queue_depth + 1 plays passes.
TooManyPlays_offByOne(ps) == Len(ps) > max_queue_depth + 1

\* ingest line 129
TooManyPlays(ps) == Len(ps) > max_queue_depth

\* ingest lines 127-134: which of the three exits a call takes. The call
\* record ret keeps the exit: raised, or the session object returned.
IngestOutcome(gid, key, ps) ==
  IF IsRepeat(gid, key) THEN "existing"
  ELSE IF TooManyPlays(ps) THEN "QueueDepthExceeded"
  ELSE "created"

\* The key recorded before the depth test instead of after it.
KeysAfter_recordsFirst(key, outcome) ==
  IF outcome = "existing" THEN idempotency_keys ELSE idempotency_keys \cup {key}

\* ingest line 133: the key is recorded when a session was created.
KeysAfter(key, outcome) ==
  IF outcome = "created" THEN idempotency_keys \cup {key} ELSE idempotency_keys

\* ingest lines 131-132: the new session replaces the entry of the contest.
SessionsAfter(gid, outcome) ==
  IF outcome = "created" THEN [sessions EXCEPT ![gid] = Len(session) + 1] ELSE sessions

ingest(gid, key, ps) ==
  LET outcome == IngestOutcome(gid, key, ps) IN
  /\ outcome = "created" => Len(session) < MaxSessions
  /\ sessions' = SessionsAfter(gid, outcome)
  /\ idempotency_keys' = KeysAfter(key, outcome)
  /\ session' = IF outcome = "created" THEN Append(session, NewSession(gid, ps)) ELSE session
  /\ ret' = [op |-> "ingest", gid |-> gid, key |-> key, n |-> Len(ps),
             raised |-> outcome = "QueueDepthExceeded",
             result |-> IF outcome = "QueueDepthExceeded" THEN NoSession ELSE sessions'[gid]]
  /\ ingested' = IF outcome = "created" THEN ingested \cup {<<gid, key>>} ELSE ingested
  /\ UNCHANGED <<messages, calls, nonEngine>>

\* metrics reporting the number of plays instead of the plays that remain.
QueueDepth_total(s) == Len(s.plays)

\* metrics line 171
QueueDepth(s) == IF Len(s.plays) - s.index > 0 THEN Len(s.plays) - s.index ELSE 0

\* The registry has a session for the contest id.
Known(gid) == sessions[gid] # NoSession

\* GameEngine.get: the session of the contest id, or KeyError.
get(gid) ==
  /\ ret' = [op |-> "get", gid |-> gid, error |-> IF Known(gid) THEN "none" ELSE "KeyError",
             result |-> sessions[gid]]
  /\ UNCHANGED <<sessions, idempotency_keys, session, messages, ingested, calls, nonEngine>>

\* list.insert at the place that keeps t ascending (equal samples keep
\* their order: sorted is stable).
InsertSorted(x, t) ==
  SelectSeq(t, LAMBDA y : y <= x) \o <<x>> \o SelectSeq(t, LAMBDA y : y > x)

\* sorted(samples): ascending.
RECURSIVE sorted(_)
sorted(samples) ==
  IF samples = <<>> THEN <<>>
  ELSE InsertSorted(samples[Len(samples)], sorted(SubSeq(samples, 1, Len(samples) - 1)))

\* The index taken without the subtraction of 1.
P95Index_ceiling(n) == (95 * n) \div 100

\* metrics lines 161 and 167: max(int(0.95 * n) - 1, 0). int() truncates the
\* float product 0.95 * n, which is floor(95 n / 100) for every list length.
P95Index(n) ==
  IF ((95 * n) \div 100) - 1 > 0 THEN ((95 * n) \div 100) - 1 ELSE 0

\* metrics lines 159-170 for one latency list (Python indexes from 0).
P95(samples) ==
  IF samples # <<>> THEN sorted(samples)[P95Index(Len(samples)) + 1] ELSE 0

\* service_layer.get_metrics over GameEngine.metrics: the KeyError of get
\* becomes NotFound; otherwise the two p95 latencies, the depth of the queue
\* and the maximum.
get_metrics(gid) ==
  /\ ret' = IF Known(gid)
            THEN [op |-> "get_metrics", gid |-> gid, error |-> "none",
                  p95_shap_latency_ms |-> P95(session[sessions[gid]].latencies),
                  prediction_latency_p95_ms |->
                      P95(session[sessions[gid]].prediction_latencies),
                  queue_depth |-> QueueDepth(session[sessions[gid]]),
                  max_queue_depth |-> max_queue_depth]
            ELSE [op |-> "get_metrics", gid |-> gid, error |-> "NotFound",
                  p95_shap_latency_ms |-> 0, prediction_latency_p95_ms |-> 0,
                  queue_depth |-> 0, max_queue_depth |-> 0]
  /\ UNCHANGED <<sessions, idempotency_keys, session, messages, ingested, calls, nonEngine>>

\* The task created whether or not the contest id has a session.
CallsAfter_unchecked(op, gid, paused) ==
  Append(calls, [op |-> op, o |-> sessions[gid], paused |-> paused])

\* service_layer lines 36-40 and 45-49: the task is created only when
\* engine.get returned a session.
CallsAfter(op, gid, paused) ==
  IF Known(gid)
  THEN Append(calls, [op |-> op, o |-> sessions[gid], paused |-> paused])
  ELSE calls

\* service_layer.start_replay and pause_game: NotFound for an unknown contest
\* id; otherwise a task that will run session.start_replay or
\* session.set_paused is created. It runs in a later iteration of the loop.
ServiceCall(op, gid, paused) ==
  /\ Known(gid) => Len(calls) < MaxCalls
  /\ calls' = CallsAfter(op, gid, paused)
  /\ ret' = [op |-> op, gid |-> gid, error |-> IF Known(gid) THEN "none" ELSE "NotFound"]
  /\ UNCHANGED <<sessions, idempotency_keys, session, messages, ingested, nonEngine>>

\* service_layer.start_replay
service_start_replay(gid) == ServiceCall("service_start_replay", gid, FALSE)

\* service_layer.pause_game
pause_game(gid, paused) == ServiceCall("pause_game", gid, paused)

\* A loop that runs the newest task first.
NextCall_newest == Len(calls)

\* asyncio.create_task hands the first step of the task to loop.call_soon,
\* which appends it to the ready queue; the loop takes handles from the left:
\* the task that runs next is the oldest one, at position 1 of calls.
NextCall == 1

\* The event loop runs the oldest task of the service layer (the loop runs
\* ready tasks in the order they were created): session.start_replay or
\* session.set_paused, neither of which suspends.
RunCall ==
  /\ calls # <<>>
  /\ LET c == calls[NextCall] IN
     /\ session' = [session EXCEPT ![c.o] =
           IF c.op = "pause_game" THEN SetPaused(@, c.paused) ELSE StartReplay(@)]
     /\ ret' = IF c.op = "pause_game" THEN NoCall
               ELSE [op |-> "start_replay", o |-> c.o,
                     created |-> ~ReplayRunning(session[c.o])]
  /\ calls' = SubSeq(calls, 1, NextCall - 1) \o SubSeq(calls, NextCall + 1, Len(calls))
  /\ UNCHANGED <<sessions, idempotency_keys, messages, ingested, nonEngine>>

InitEngine ==
  /\ sessions = [g \in Contests |-> NoSession]
  /\ idempotency_keys = {}
  /\ session = <<>>
  /\ messages = <<>>
  /\ ret = NoCall
  /\ ingested = {}
  /\ calls = <<>>

\* The state after one accepted ingest("g1", plays, idempotency_key="k1").
InitReplay ==
  /\ sessions = [g \in Contests |-> 1]
  /\ idempotency_keys = {"k1"}
  /\ \E ps \in ReplayPlayLists : session = <<NewSession("g1", ps)>>
  /\ messages = <<>>
  /\ ret = NoCall
  /\ ingested = {<<"g1", "k1">>}
  /\ calls = <<>>

NextReplay ==
  \/ \E o \in Objs : register(o)
  \/ \E o \in Objs, c \in Conns : unregister(o, c)
  \/ \E o \in Objs : start_replay(o)
  \/ \E o \in Objs, p \in BOOLEAN : set_paused(o, p)
  \/ \E o \in Objs : LoopHead(o)
  \/ \E o \in Objs : GateResume(o)
  \/ \E o \in Objs : PredictionReady(o)
  \/ \E o \in Objs : PredictionSent(o)
  \/ \E o \in Objs : ShapReady(o)
  \/ \E o \in Objs : ShapSent(o)
  \/ \E o \in Objs : TimelineSent(o)

\* The state after one accepted ingest and one register call on the session:
\* a subscriber (connection 1) that joined before the replay was started.
InitSubscribed ==
  /\ sessions = [g \in Contests |-> 1]
  /\ idempotency_keys = {"k1"}
  /\ \E ps \in ReplayPlayLists :
       session = <<[NewSession("g1", ps) EXCEPT !.connections = {1}]>>
  /\ messages = <<NewQueue>>
  /\ ret = NoCall
  /\ ingested = {<<"g1", "k1">>}
  /\ calls = <<>>

\* A step of the replay task of the session o.
ReplayStep(o) ==
  \/ LoopHead(o) \/ GateResume(o)
  \/ PredictionReady(o) \/ PredictionSent(o)
  \/ ShapReady(o) \/ ShapSent(o) \/ TimelineSent(o)

\* The session and its one subscriber: nobody else registers in the run.
NextSubscribed ==
  \/ \E o \in Objs, c \in Conns : unregister(o, c)
  \/ \E o \in Objs : start_replay(o)
  \/ \E o \in Objs, p \in BOOLEAN : set_paused(o, p)
  \/ \E o \in Objs : LoopHead(o)
  \/ \E o \in Objs : GateResume(o)
  \/ \E o \in Objs : PredictionReady(o)
  \/ \E o \in Objs : PredictionSent(o)
  \/ \E o \in Objs : ShapReady(o)
  \/ \E o \in Objs : ShapSent(o)
  \/ \E o \in Objs : TimelineSent(o)

NextEngine ==
  \/ \E g \in Contests, k \in Keys, ps \in IngestPlayLists : ingest(g, k, ps)
  \/ NextReplay

\* The state after ingest("g1", [play 1], idempotency_key="k1") and
\* ingest("g2", [play 2], idempotency_key="k2"): two contests, one session each.
InitSessions ==
  /\ sessions = [g \in {"g1", "g2"} |-> IF g = "g1" THEN 1 ELSE 2]
  /\ idempotency_keys = {"k1", "k2"}
  /\ session = <<NewSession("g1", <<1>>), NewSession("g2", <<2>>)>>
  /\ messages = <<>>
  /\ ret = NoCall
  /\ ingested = {<<"g1", "k1">>, <<"g2", "k2">>}
  /\ calls = <<>>

\* --------------------------------------------------------------------- search
\* Text is a sequence of characters. The searchable fields of the play with
\* play list position i: play_id, description, team.
PlayFields(i) ==
  CASE i % 3 = 1 -> << <<"p", "1">>, <<"P", "a", "s", "s">>, <<"K", "C">> >>
    [] i % 3 = 2 -> << <<"p", "2">>, <<"r", "u", "n">>, <<"S", "F">> >>
    [] OTHER -> << <<"p", "3">>, <<"S", "p", "i", "k", "e">>, <<"k", "c">> >>

\* str.lower on a character
Lower(c) ==
  CASE c = "P" -> "p" [] c = "A" -> "a" [] c = "S" -> "s" [] c = "K" -> "k"
    [] c = "C" -> "c" [] c = "F" -> "f" [] OTHER -> c

\* str.lower
LowerText(t) == [k \in 1..Len(t) |-> Lower(t[k])]

\* search lines 146-150: the searchable fields joined with single spaces.
Haystack(i) ==
  PlayFields(i)[1] \o <<" ">> \o PlayFields(i)[2] \o <<" ">> \o PlayFields(i)[3]

\* The operator `in` of str: q is a substring of h.
Contains(h, q) ==
  \E k \in 0..(Len(h) - Len(q)) : SubSeq(h, k + 1, k + Len(q)) = q

\* search lines 143 and 151
Matches(i, query) == Contains(LowerText(Haystack(i)), LowerText(query))

\* search line 153, evaluated after the append of line 152
LimitReached(results, limit) == Len(results) >= limit

\* search lines 145-155 over the plays that remain to be scanned.
RECURSIVE SearchFrom(_, _, _, _)
SearchFrom(ps, query, limit, results) ==
  IF ps = <<>> THEN results
  ELSE IF Matches(Head(ps), query)
       THEN IF LimitReached(Append(results, Head(ps)), limit)
            THEN Append(results, Head(ps))
            ELSE SearchFrom(Tail(ps), query, limit, Append(results, Head(ps)))
       ELSE SearchFrom(Tail(ps), query, limit, results)

\* The keys of _sessions in insertion order.
RegistryOrder == <<"g1">>

\* search line 144-145: the plays of the sessions of the registry, session by
\* session in dict order.
RECURSIVE RegistryPlays(_)
RegistryPlays(order) ==
  IF order = <<>> THEN <<>>
  ELSE (IF Known(Head(order)) THEN session[sessions[Head(order)]].plays ELSE <<>>)
       \o RegistryPlays(Tail(order))

\* The queries of the run: the empty string, a prefix of every play_id, a
\* description in upper case, a team, two strings that span two fields, and a
\* string no play contains.
Queries ==
  {<<>>, <<"p">>, <<"P", "A", "S", "S">>, <<"k", "c">>,
   <<"1", " ", "p", "a", "s", "s">>, <<"s", " ", "k">>, <<"z", "z">>}

\* GameEngine.search (service_layer.search passes query and limit through).
search(query, limit) ==
  /\ ret' = [op |-> "search", query |-> query, limit |-> limit,
             result |-> SearchFrom(RegistryPlays(RegistryOrder), query, limit, <<>>)]
  /\ UNCHANGED <<sessions, idempotency_keys, session, messages, ingested, calls, nonEngine>>

\* The play lists of the sessions that are searched.
SearchPlayLists == {PlayList(n) : n \in 0..(MaxPlays + 1)}

\* An empty registry, or the state after one accepted ingest of a play list.
InitSearch ==
  \/ InitEngine
  \/ /\ idempotency_keys = {"k1"}
     /\ \E ps \in SearchPlayLists : session = <<NewSession("g1", ps)>>
     /\ sessions = [g \in Contests |-> 1]
     /\ messages = <<>>
     /\ ret = NoCall
     /\ ingested = {<<"g1", "k1">>}
     /\ calls = <<>>

NextSearch == \E q \in Queries, l \in 0..MaxLimit : search(q, l)

\* -------------------------------------------------------------------- metrics
\* Latency samples in ms: the lists of a session that replayed n plays hold
\* n samples each.
SampleValues == 1..MaxSample
SampleLists(n) == [1..n -> SampleValues]

\* The list 1, 2, ..., 10 and the same samples recorded in descending order.
TenSamples == [i \in 1..10 |-> i]
TenSamplesDescending == [i \in 1..10 |-> 11 - i]

\* The session after a replay of the play list ps that ran to its end without
\* subscribers, with the latency lists it recorded.
ReplayedSession(gid, ps, shap, pred) ==
  [NewSession(gid, ps) EXCEPT !.index = Len(ps), !.timeline = ps, !.task = "done",
                              !.play = Len(ps), !.latencies = shap,
                              !.prediction_latencies = pred]

\* One session that was ingested and replayed to its end; its two latency
\* lists hold any samples.
InitMetrics ==
  /\ sessions = [g \in Contests |-> 1]
  /\ idempotency_keys = {"k1"}
  /\ \/ \E n \in 0..MaxSamples : \E shap \in SampleLists(n), pred \in SampleLists(n) :
          session = <<ReplayedSession("g1", PlayList(n), shap, pred)>>
     \/ \E shap \in {TenSamples, TenSamplesDescending},
           pred \in {TenSamples, TenSamplesDescending} :
          session = <<ReplayedSession("g1", PlayList(Len(shap)), shap, pred)>>
  /\ messages = <<>>
  /\ ret = NoCall
  /\ ingested = {<<"g1", "k1">>}
  /\ calls = <<>>

NextMetrics ==
  \/ \E g \in Contests : get_metrics(g)
  \/ \E g \in Contests : get(g)

\* ---------------------------------------------------------------- ShapAdapter
\* A float is a record: either NaN or a number. Feature values are whole
\* numbers, contributions are in units of 1/100 (weights are multiples of
\* 0.5, predictions multiples of 0.1).
Num(x) == [nan |-> FALSE, v |-> x]
NaNf == [nan |-> TRUE, v |-> 0]

\* abs() of a float
Abs(x) == IF x.nan THEN x ELSE Num(IF x.v < 0 THEN 0 - x.v ELSE x.v)

\* a < b and a >= b on floats: every comparison with NaN is false.
Less(a, b) == ~a.nan /\ ~b.nan /\ a.v < b.v
AtLeast(a, b) == ~a.nan /\ ~b.nan /\ a.v >= b.v

\* a + b on floats: NaN propagates.
Plus(a, b) == IF a.nan \/ b.nan THEN NaNf ELSE Num(a.v + b.v)

\* sum() of the values of a list of ShapValue, from the left, starting at 0.
RECURSIVE SumValues(_)
SumValues(vs) ==
  IF vs = <<>> THEN Num(0)
  ELSE Plus(SumValues(SubSeq(vs, 1, Len(vs) - 1)), vs[Len(vs)].value)

\* sum() of the magnitudes of the values.
RECURSIVE SumMagnitudes(_)
SumMagnitudes(vs) ==
  IF vs = <<>> THEN Num(0)
  ELSE Plus(SumMagnitudes(SubSeq(vs, 1, Len(vs) - 1)), Abs(vs[Len(vs)].value))

\* The feature names a play can carry, in lexicographic order.
FeatureOrder == SubSeq(<<"a", "b", "c", "d", "e", "f">>, 1, MaxFeatures)
FeatureNames == {FeatureOrder[i] : i \in 1..MaxFeatures}

\* Feature values: a negative number, a positive number, and NaN (float() of
\* a null cell of the parquet file).
FeatureValues == {Num(0 - 2), Num(1), NaNf}

\* play.prediction, in tenths
Predictions == {0, 5}

\* The plays explained: any features out of FeatureNames with any values.
ShapPlays ==
  {[play_id |-> 1, features |-> f, prediction |-> p] :
     f \in UNION {[F -> FeatureValues] : F \in SUBSET FeatureNames}, p \in Predictions}

\* self._rng.uniform(0.5, 1.5), in halves: the two ends of the interval.
Weights == {1, 3}

\* settings.shap_top_k: the default and two smaller settings.
TopKs == {1, 2, shap_top_k}

\* compute line 23: weight * value - 0.1 * play.prediction, in 1/100.
Contribution(w, value, prediction) ==
  IF value.nan THEN NaNf ELSE Num(50 * w * value.v - prediction)

\* compute lines 19-24: one ShapValue per feature, in the order of
\* sorted(play.features.items()).
Contributions(play, w) ==
  LET names == SelectSeq(FeatureOrder, LAMBDA f : f \in DOMAIN play.features) IN
  [i \in 1..Len(names) |->
     [feature |-> names[i],
      value |-> Contribution(w[names[i]], play.features[names[i]], play.prediction)]]

\* The place of one ShapValue in a list sorted by descending magnitude: after
\* the entries that are not smaller (the sort is stable).
InsertByMagnitude(x, t) ==
  SelectSeq(t, LAMBDA y : ~Less(Abs(y.value), Abs(x.value))) \o <<x>>
    \o SelectSeq(t, LAMBDA y : Less(Abs(y.value), Abs(x.value)))

RECURSIVE SortedByMagnitude(_)
SortedByMagnitude(cs) ==
  IF cs = <<>> THEN <<>>
  ELSE InsertByMagnitude(cs[Len(cs)], SortedByMagnitude(SubSeq(cs, 1, Len(cs) - 1)))

\* The orders in which a list can be arranged.
Arrangements(cs) ==
  {[i \in DOMAIN cs |-> cs[p[i]]] :
     p \in {q \in [DOMAIN cs -> DOMAIN cs] : \A i, j \in DOMAIN cs : q[i] = q[j] => i = j}}

\* compute line 25: contributions.sort(key=abs(value), reverse=True). Keys
\* that are numbers are totally ordered and the result is the stable sort.
\* A NaN key compares false with every key, the keys are not totally
\* ordered, and the order list.sort leaves is not specified: any order.
SortOutcomes(cs) ==
  IF \E i \in DOMAIN cs : cs[i].value.nan THEN Arrangements(cs)
  ELSE {SortedByMagnitude(cs)}

\* compute line 26: the slice l[:k] for k >= 0.
Take(l, k) == SubSeq(l, 1, IF k < Len(l) THEN k ELSE Len(l))

\* ShapAdapter.compute: the snapshot of a play. One play is explained in a run.
compute(play, k) ==
  /\ ret.op = "none"
  /\ \E w \in [DOMAIN play.features -> Weights] :
       \E contributions \in SortOutcomes(Contributions(play, w)) :
         ret' = [op |-> "compute", play |-> play, shap_top_k |-> k,
                 play_id |-> play.play_id, shap_values |-> contributions,
                 top_features |-> Take(contributions, k)]
  /\ UNCHANGED <<sessions, idempotency_keys, session, messages, ingested, calls, nonEngine>>

\* _run_replay line 110: sum(value.value for value in top_features)
ShapSum(top_features) == SumValues(top_features)

\* _run_replay lines 108-112: the TimelinePoint built from the snapshot that
\* compute returned.
TimelinePointOf ==
  /\ ret.op = "compute"
  /\ ret' = [op |-> "timeline_point", play_id |-> ret.play_id,
             shap_sum |-> ShapSum(ret.top_features), top_features |-> ret.top_features]
  /\ UNCHANGED <<sessions, idempotency_keys, session, messages, ingested, calls, nonEngine>>

NextShap ==
  \/ \E play \in ShapPlays, k \in TopKs : compute(play, k)
  \/ TimelinePointOf

\* The service layer over the engine: no subscriber is registered.
NextService ==
  \/ \E g \in Contests, k \in Keys, ps \in IngestPlayLists : ingest(g, k, ps)
  \/ \E g \in Contests : get(g)
  \/ \E g \in Contests : get_metrics(g)
  \/ \E g \in Contests : service_start_replay(g)
  \/ \E g \in Contests, p \in BOOLEAN : pause_game(g, p)
  \/ RunCall
  \/ \E o \in Objs : LoopHead(o)
  \/ \E o \in Objs : GateResume(o)
  \/ \E o \in Objs : PredictionReady(o)
  \/ \E o \in Objs : ShapReady(o)

\* ---------------------------------------------------------- ConnectionManager
Sockets == 1..MaxSockets
Broadcasts == 1..MaxBroadcasts
Free == <<"free">>

\* The block entered without waiting for the lock.
Acquire_noWait(who) == lock' = who

\* asyncio.Lock.acquire: taken when nobody holds it, otherwise the caller waits.
Acquire(who) == lock = Free /\ lock' = who
Release == lock' = Free

\* A step of websocket_endpoint: only the socket w moves.
EndpointStep(w, to) == endpoint' = [endpoint EXCEPT ![w] = to]

\* connect: websocket.accept(), then the lock is taken.
ConnectLock(w) ==
  /\ endpoint[w] = "new"
  /\ Acquire(<<"connect", w>>)
  /\ EndpointStep(w, "adding")
  /\ UNCHANGED <<connections, bc, recipients, send, inbox, nonFanout>>

\* connect: the add under the lock; the endpoint then waits in receive_text.
ConnectAdd(w) ==
  /\ endpoint[w] = "adding"
  /\ connections' = connections \cup {w}
  /\ Release
  /\ EndpointStep(w, "open")
  /\ UNCHANGED <<bc, recipients, send, inbox, nonFanout>>

\* websocket_endpoint: the client goes away (WebSocketDisconnect); the finally
\* clause calls disconnect, which takes the lock.
EndpointDisconnectLock(w) ==
  /\ endpoint[w] = "open"
  /\ Acquire(<<"disconnect", w>>)
  /\ EndpointStep(w, "removing")
  /\ UNCHANGED <<connections, bc, recipients, send, inbox, nonFanout>>

\* disconnect: the discard under the lock.
EndpointDiscard(w) ==
  /\ endpoint[w] = "removing"
  /\ connections' = connections \ {w}
  /\ Release
  /\ EndpointStep(w, "closed")
  /\ UNCHANGED <<bc, recipients, send, inbox, nonFanout>>

\* broadcast lines 28-29: the call (the b-th of the run) takes the lock.
BroadcastCall(b) ==
  /\ bc[b] = "idle"
  /\ \A a \in Broadcasts : a < b => bc[a] # "idle"
  /\ Acquire(<<"broadcast", b>>)
  /\ bc' = [bc EXCEPT ![b] = "snapshot"]
  /\ UNCHANGED <<connections, endpoint, recipients, send, inbox>>

\* broadcast called by any producer.
BroadcastLock(b) == BroadcastCall(b) /\ UNCHANGED nonFanout

\* The gather awaited inside the `async with` block: the lock stays with the
\* broadcast during delivery.
LockAfterSnapshot_held(b) == <<"broadcast", b>>

\* broadcast lines 29-31: the `async with` block ends after the snapshot, so
\* the lock is free when gather starts.
LockAfterSnapshot(b) == Free

\* broadcast lines 30-33: the snapshot under the lock, the lock released, one
\* _safe_send task per recipient handed to gather.
BroadcastSnapshot(b) ==
  /\ bc[b] = "snapshot"
  /\ recipients' = [recipients EXCEPT ![b] = connections]
  /\ send' = [send EXCEPT ![b] = [w \in Sockets |-> IF w \in connections THEN "pending" ELSE "none"]]
  /\ lock' = LockAfterSnapshot(b)
  /\ bc' = [bc EXCEPT ![b] = "gather"]
  /\ UNCHANGED <<connections, endpoint, inbox, nonFanout>>

\* _safe_send line 38-39 swallowing the error without the disconnect.
AfterSendError_swallow == "done_failed"

\* _safe_send lines 38-39: a failed send goes on to disconnect the websocket.
AfterSendError == "failed"

\* _safe_send lines 36-38: send_text delivers the payload, or raises.
SendText(b, w, ok) ==
  /\ bc[b] = "gather"
  /\ send[b][w] = "pending"
  /\ send' = [send EXCEPT ![b][w] = IF ok THEN "done_ok" ELSE AfterSendError]
  /\ inbox' = IF ok THEN [inbox EXCEPT ![w] = Append(@, b)] ELSE inbox
  /\ UNCHANGED <<connections, lock, endpoint, bc, recipients, nonFanout>>

\* _safe_send line 39 -> disconnect line 24: the lock is taken.
SafeSendDisconnectLock(b, w) ==
  /\ send[b][w] = "failed"
  /\ Acquire(<<"safe_send", b, w>>)
  /\ send' = [send EXCEPT ![b][w] = "removing"]
  /\ UNCHANGED <<connections, endpoint, bc, recipients, inbox, nonFanout>>

\* disconnect line 25 called by _safe_send: the discard under the lock.
SafeSendDiscard(b, w) ==
  /\ send[b][w] = "removing"
  /\ connections' = connections \ {w}
  /\ Release
  /\ send' = [send EXCEPT ![b][w] = "done_failed"]
  /\ UNCHANGED <<endpoint, bc, recipients, inbox, nonFanout>>

\* gather without return_exceptions over sends that let the error out: the
\* first error ends the wait.
GatherDone_firstError(b) ==
  \/ \E w \in recipients[b] : send[b][w] \in {"failed", "removing", "done_failed"}
  \/ \A w \in recipients[b] : send[b][w] \in {"done_ok", "done_failed"}

\* broadcast lines 31-33: gather is done when every _safe_send task is done.
GatherDone(b) == \A w \in recipients[b] : send[b][w] \in {"done_ok", "done_failed"}

\* broadcast returns to its caller.
BroadcastReturn(b) ==
  /\ bc[b] = "gather"
  /\ GatherDone(b)
  /\ bc' = [bc EXCEPT ![b] = "returned"]
  /\ UNCHANGED <<connections, lock, endpoint, recipients, send, inbox, nonFanout>>

InitFanout ==
  /\ connections = {}
  /\ lock = Free
  /\ endpoint = [w \in Sockets |-> "new"]
  /\ bc = [b \in Broadcasts |-> "idle"]
  /\ recipients = [b \in Broadcasts |-> {}]
  /\ send = [b \in Broadcasts |-> [w \in Sockets |-> "none"]]
  /\ inbox = [w \in Sockets |-> <<>>]

NextFanout ==
  \/ \E w \in Sockets : ConnectLock(w)
  \/ \E w \in Sockets : ConnectAdd(w)
  \/ \E w \in Sockets : EndpointDisconnectLock(w)
  \/ \E w \in Sockets : EndpointDiscard(w)
  \/ \E b \in Broadcasts : BroadcastLock(b)
  \/ \E b \in Broadcasts : BroadcastSnapshot(b)
  \/ \E b \in Broadcasts, w \in Sockets, ok \in BOOLEAN : SendText(b, w, ok)
  \/ \E b \in Broadcasts, w \in Sockets : SafeSendDisconnectLock(b, w)
  \/ \E b \in Broadcasts, w \in Sockets : SafeSendDiscard(b, w)
  \/ \E b \in Broadcasts : BroadcastReturn(b)

\* A step of a task of the manager that is not the arrival or the departure
\* of a client: the end of an `async with` block, the steps of a broadcast, the
\* end of a send_text (by delivering or by raising), the disconnect after a
\* failed send.
FanoutTaskStep ==
  \/ \E w \in Sockets : ConnectAdd(w)
  \/ \E w \in Sockets : EndpointDiscard(w)
  \/ \E b \in Broadcasts : BroadcastSnapshot(b)
  \/ \E b \in Broadcasts, w \in Sockets, ok \in BOOLEAN : SendText(b, w, ok)
  \/ \E b \in Broadcasts, w \in Sockets : SafeSendDisconnectLock(b, w)
  \/ \E b \in Broadcasts, w \in Sockets : SafeSendDiscard(b, w)
  \/ \E b \in Broadcasts : BroadcastReturn(b)

\* ------------------------------------------------------------------ Scheduler
JobNames == {"drift", "report"}
NoTask == 0
TaskDone == {"cancelled", "raised"}
NoStop == [pc |-> "idle", pos |-> 0, size |-> 0, task |-> NoTask]

\* Position of the name in the dict, 0 when it is not a key.
PosOf(name) ==
  IF \E i \in 1..Len(jobs) : job_objs[jobs[i]].name = name
  THEN CHOOSE i \in 1..Len(jobs) : job_objs[jobs[i]].name = name
  ELSE 0

\* Scheduler.add_job: a new Job object takes the entry of its name; a name that
\* is already a key keeps its place in the dict.
add_job(name) ==
  LET j == Len(job_objs) + 1 IN
  /\ Len(job_objs) < MaxJobs
  /\ job_objs' = Append(job_objs, [name |-> name, task |-> NoTask])
  /\ jobs' = IF PosOf(name) = 0 THEN Append(jobs, j) ELSE [jobs EXCEPT ![PosOf(name)] = j]
  /\ called' = "add_job"
  /\ UNCHANGED <<tasks, running, stopper, nonScheduler>>

\* start without the test of _running: every call creates the loops again.
StartIsNoop_never == FALSE

\* Scheduler.start lines 35-36
StartIsNoop == running

\* Scheduler.start: one task per registered job, in dict order; the task of
\* the job at position i is task Len(tasks) + i.
start ==
  /\ called' = "start"
  /\ IF StartIsNoop
     THEN UNCHANGED <<jobs, job_objs, tasks, running, stopper, nonScheduler>>
     ELSE /\ Len(tasks) + Len(jobs) <= MaxTasks
          /\ running' = TRUE
          /\ tasks' = tasks \o [i \in 1..Len(jobs) |->
                                  [job |-> jobs[i], st |-> "ready", cancel |-> FALSE, runs |-> 0]]
          /\ job_objs' = [j \in DOMAIN job_objs |->
                            IF \E i \in 1..Len(jobs) : jobs[i] = j
                            THEN [job_objs[j] EXCEPT !.task =
                                    Len(tasks) + CHOOSE i \in 1..Len(jobs) : jobs[i] = j]
                            ELSE job_objs[j]]
          /\ UNCHANGED <<jobs, stopper, nonScheduler>>

\* A loop that calls the unit of work again without awaiting the one before.
AtLoopTop_notAwaited(t) == tasks[t].st \in {"ready", "sleep", "work"}

\* Job.run lines 19-21: the loop is at `await self.coro()` when the task runs
\* for the first time, and again when the sleep of line 21 has returned.
AtLoopTop(t) == tasks[t].st \in {"ready", "sleep"}

\* Job.run line 20: the loop begins a unit of work. The unit returns without
\* suspending (then the loop sleeps the interval), suspends inside, or raises.
JobRunsWork(t, outcome) ==
  /\ AtLoopTop(t)
  /\ ~tasks[t].cancel
  /\ tasks[t].runs < MaxRuns
  /\ tasks' = [tasks EXCEPT ![t].runs = @ + 1,
                            ![t].st = CASE outcome = "returns" -> "sleep"
                                        [] outcome = "suspends" -> "work"
                                        [] outcome = "raises" -> "raised"]
  /\ called' = "none"
  /\ UNCHANGED <<jobs, job_objs, running, stopper, nonScheduler>>

\* Job.run lines 20-21: a suspended unit of work ends; the loop sleeps, or the
\* error of the unit ends the loop.
JobWorkEnds(t, outcome) ==
  /\ tasks[t].st = "work"
  /\ ~tasks[t].cancel
  /\ tasks' = [tasks EXCEPT ![t].st = IF outcome = "returns" THEN "sleep" ELSE "raised"]
  /\ called' = "none"
  /\ UNCHANGED <<jobs, job_objs, running, stopper, nonScheduler>>

\* Task.cancel took effect: CancelledError is thrown into the loop where it
\* waits (or before it first runs) and ends it.
JobCancelled(t) ==
  /\ tasks[t].st \notin TaskDone
  /\ tasks[t].cancel
  /\ tasks' = [tasks EXCEPT ![t].st = "cancelled"]
  /\ called' = "none"
  /\ UNCHANGED <<jobs, job_objs, running, stopper, nonScheduler>>

\* Scheduler.stop lines 45-49 from dict position i on: a job without a task is
\* skipped; awaiting a cancelled task raises CancelledError, which is
\* suppressed; awaiting a task that ended with an error raises that error;
\* a task that is not done is cancelled and awaited. Yields the position where
\* the loop stops: Len(jobs) + 1 when it ran to the end.
RECURSIVE StopScan(_)
StopScan(i) ==
  IF i > Len(jobs) THEN i
  ELSE LET t == job_objs[jobs[i]].task IN
       IF t = NoTask \/ tasks[t].st = "cancelled" THEN StopScan(i + 1) ELSE i

\* The stop() loop goes on from position i (size: the dict size it began with).
StopFrom(i, size) ==
  LET k == StopScan(i)
      t == IF k > Len(jobs) THEN NoTask ELSE job_objs[jobs[k]].task IN
  IF k > Len(jobs)
  THEN /\ running' = FALSE
       /\ stopper' = [pc |-> "returned", pos |-> k, size |-> size, task |-> NoTask]
       /\ UNCHANGED tasks
  ELSE IF tasks[t].st = "raised"
  THEN /\ stopper' = [pc |-> "raised", pos |-> k, size |-> size, task |-> t]
       /\ UNCHANGED <<tasks, running>>
  ELSE /\ tasks' = [tasks EXCEPT ![t].cancel = TRUE]
       /\ stopper' = [pc |-> "awaiting", pos |-> k, size |-> size, task |-> t]
       /\ UNCHANGED running

\* Scheduler.stop is called (no other stop() call is in flight).
stop ==
  /\ stopper.pc # "awaiting"
  /\ called' = "stop"
  /\ IF ~running
     THEN /\ stopper' = [pc |-> "returned", pos |-> 0, size |-> 0, task |-> NoTask]
          /\ UNCHANGED <<tasks, running>>
     ELSE StopFrom(1, Len(jobs))
  /\ UNCHANGED <<jobs, job_objs, nonScheduler>>

\* stop() resumes from `await job._task`: the awaited loop is done. The dict
\* iterator raises RuntimeError when the dict changed size meanwhile.
StopResumes ==
  /\ stopper.pc = "awaiting"
  /\ tasks[stopper.task].st \in TaskDone
  /\ called' = "none"
  /\ IF tasks[stopper.task].st = "raised" \/ Len(jobs) # stopper.size
     THEN /\ stopper' = [stopper EXCEPT !.pc = "raised"]
          /\ UNCHANGED <<tasks, running>>
     ELSE StopFrom(stopper.pos + 1, stopper.size)
  /\ UNCHANGED <<jobs, job_objs, nonScheduler>>

InitScheduler ==
  /\ jobs = <<>>
  /\ job_objs = <<>>
  /\ tasks = <<>>
  /\ running = FALSE
  /\ stopper = NoStop
  /\ called = "none"

NextScheduler ==
  \/ \E n \in JobNames : add_job(n)
  \/ start
  \/ \E t \in 1..Len(tasks), r \in {"returns", "suspends", "raises"} : JobRunsWork(t, r)
  \/ \E t \in 1..Len(tasks), r \in {"returns", "raises"} : JobWorkEnds(t, r)
  \/ \E t \in 1..Len(tasks) : JobCancelled(t)
  \/ stop
  \/ StopResumes

\* -------------------------------------------------------------------- watcher
Gids == {"g1", "g2"}
\* Probabilities are counted in units of 1 / Unit, so that MaxUpdates smoothing
\* steps with alpha = AlphaNum / AlphaDen stay exact.
Unit == AlphaDen ^ MaxUpdates
\* math.exp(-logit) overflows for a very negative logit: line 43 raises.
Overflow == 0 - 2
\* A NaN logit (y_pred or a SHAP value is NaN): every float computed from it
\* is NaN.
NaN == 0 - 3
\* Values of line 43 for the packets of the run: 0.6 and 0.8, and 1.0 for a
\* logit so large that 1 + exp(-logit) rounds to 1.
RawProbs == {(3 * Unit) \div 5, (4 * Unit) \div 5, Unit}
Unset == 0 - 1
\* MetaModelConfig(alpha=...): 0, the default 0.15, 0.5 and 1.
Alphas == {0, AlphaNum, AlphaDen \div 2, AlphaDen}
NoPayload == [kind |-> "none", gid |-> "", ts |-> 0, val |-> 0]
NoMsg == [gid |-> "", ts |-> 0, p_win |-> 0, raw |-> 0]

\* The subscription of redis_listener and the channel of publish_update.
ListenChannel == "shap_updates"
PUBSUB_CHANNEL == "shap_updates"

\* The fields of the JSON object a payload decodes to (a payload that is not
\* JSON has none): a packet of the upstream service, a WinProbMsg as
\* publish_update serialises it, an object of some other producer.
Fields(p) ==
  CASE p.kind = "packet" -> {"gid", "ts", "y_pred", "state", "shap", "model_version"}
    [] p.kind = "winprob" -> {"gid", "ts", "p_win", "explain"}
    [] p.kind = "object" -> {"gid"}
    [] OTHER -> {}

\* json.loads accepts the payload.
IsJSON(p) == p.kind # "garbage"

\* The required fields of LivePacket.
LivePacketFields == {"gid", "ts", "y_pred", "state", "shap", "model_version"}

\* A validation that asks for the contest id only.
Validates_gidOnly(p) == "gid" \in Fields(p)

\* LivePacket.model_validate accepts the decoded object.
Validates(p) == LivePacketFields \subseteq Fields(p)

\* handle_packet lines 39-40 raise on the payload.
Malformed(p) == ~IsJSON(p) \/ ~Validates(p)

\* json.dumps(msg.model_dump(mode="json")) as a payload on a channel.
MsgPayload(m) == [kind |-> "winprob", gid |-> m.gid, ts |-> m.ts, val |-> m.p_win]

\* Payloads of the upstream service and of other producers on the channel;
\* val is the value line 43 computes for the packet (Overflow: it raises).
UpstreamPayloads ==
  {[kind |-> "packet", gid |-> g, ts |-> 0, val |-> v] :
     g \in Gids, v \in RawProbs \cup {Overflow, NaN}}
  \cup {[kind |-> "garbage", gid |-> "", ts |-> 0, val |-> 0],
        [kind |-> "object", gid |-> "g1", ts |-> 0, val |-> 0]}

\* Redis PUBLISH on the channel ch: delivered to the listener when it is
\* subscribed to ch at that moment.
Subscribed(ch) == ch = ListenChannel /\ listener # "terminated"
PublishOn(ch, p) == IF Subscribed(ch) THEN Append(channel, p) ELSE channel

\* MetaModel.update line 45
Smooth(p_prev, p_raw) ==
  IF p_prev = NaN \/ p_raw = NaN THEN NaN
  ELSE ((AlphaDen - alpha) * p_prev + alpha * p_raw) \div AlphaDen

\* line 44 with a previous value of 0.0 for a contest seen for the first time.
Prev_zeroDefault(gid, p_raw) == IF meta_state[gid] = Unset THEN 0 ELSE meta_state[gid]

\* MetaModel.update line 44
Prev(gid, p_raw) == IF meta_state[gid] = Unset THEN p_raw ELSE meta_state[gid]

\* MetaModel.update lines 47-52
update(p) ==
  [gid |-> p.gid, ts |-> p.ts, p_win |-> Smooth(Prev(p.gid, p.val), p.val), raw |-> p.val]

\* One smoothing state kept for every contest.
StateAfter_shared(p) == [g \in Gids |-> update(p).p_win]

\* MetaModel.update line 46: the smoothed value is stored under packet.gid.
StateAfter(p) == [meta_state EXCEPT ![p.gid] = update(p).p_win]

\* The entry of the history for a step taken on the payload p.
Ev(p, step) == [kind |-> p.kind, ts |-> p.ts, gid |-> p.gid, step |-> step]

\* The steps of the listener leave the scheduler and the engine alone; a step
\* that is not the broadcast call leaves the manager alone too.
ListenerOnly == UNCHANGED <<nonWatcher, varsFanout>>

\* The upstream service (or any other producer) publishes on the channel; the
\* payloads of the run are stamped 1, 2, ... in the order they are published.
UpstreamPublish(p) ==
  /\ upstream < MaxPackets
  /\ upstream' = upstream + 1
  /\ channel' = PublishOn(ListenChannel, [p EXCEPT !.ts = upstream + 1])
  /\ UNCHANGED <<listener, raw, msg, meta_state, last_shap, winprob, published,
                 shap_stream, sent, alpha, returned, log>>
  /\ ListenerOnly

\* redis_listener lines 54-61: an exception of handle_packet leaves the
\* `async for`; the finally clause closes the subscription.
AfterMalformed == "terminated"

\* A listener that starts handle_packet without awaiting it (the handling of
\* the payload in hand is dropped from the model when the next one is taken).
ReadyForNext_notAwaited == listener # "terminated"

\* redis_listener line 58: handle_packet is awaited, so the `async for` asks
\* for the next message only when the handling of the last one has returned.
ReadyForNext == listener = "listening"

\* redis_listener lines 55-58, handle_packet lines 39-41: the next message is
\* taken, decoded and validated, and the first cache write is awaited.
Receive ==
  /\ ReadyForNext
  /\ channel # <<>>
  /\ raw' = Head(channel)
  /\ channel' = Tail(channel)
  /\ listener' = IF Malformed(Head(channel)) THEN AfterMalformed ELSE "cache_live_packet"
  /\ log' = log \o (IF Malformed(Head(channel))
                    THEN <<Ev(Head(channel), "receive"), Ev(Head(channel), "raised")>>
                    ELSE <<Ev(Head(channel), "receive")>>)
  /\ UNCHANGED <<upstream, msg, meta_state, last_shap, winprob, published,
                 shap_stream, sent, alpha, returned>>
  /\ ListenerOnly

\* cache_live_packet line 26 done, then handle_packet lines 42-43:
\* meta_model.update runs (or raises) and the second cache write is awaited.
CacheLivePacket ==
  /\ listener = "cache_live_packet"
  /\ last_shap' = [last_shap EXCEPT ![raw.gid] = raw]
  /\ IF raw.val = Overflow
     THEN /\ listener' = "terminated"
          /\ UNCHANGED <<msg, meta_state, returned>>
     ELSE /\ msg' = update(raw)
          /\ meta_state' = StateAfter(raw)
          /\ returned' = Append(returned, update(raw))
          /\ listener' = "cache_winprob"
  /\ UNCHANGED <<channel, upstream, raw, winprob, published, shap_stream, sent, alpha>>
  /\ ListenerOnly
  /\ log' = log \o <<Ev(raw, "cache_live_packet"),
                     Ev(raw, IF raw.val = Overflow THEN "raised" ELSE "update")>>

\* handle_packet with lines 44 and 45 exchanged: the stream entry is written
\* when the cache write is done.
AfterCacheWinprob_appendFirst == "append_stream"

\* handle_packet lines 43-44: publish_update follows cache_winprob.
AfterCacheWinprob == "publish"

\* cache_winprob line 33 done; publish_update is awaited.
CacheWinprob ==
  /\ listener = "cache_winprob"
  /\ winprob' = [winprob EXCEPT ![msg.gid] = msg]
  /\ listener' = AfterCacheWinprob
  /\ UNCHANGED <<channel, upstream, raw, msg, meta_state, last_shap, published,
                 shap_stream, sent, alpha, returned>>
  /\ ListenerOnly
  /\ log' = Append(log, Ev(raw, "cache_winprob"))

\* publish_update line 39 done; append_stream is awaited.
PublishUpdate ==
  /\ listener = "publish"
  /\ published' = Append(published, msg)
  /\ channel' = PublishOn(PUBSUB_CHANNEL, MsgPayload(msg))
  /\ listener' = "append_stream"
  /\ UNCHANGED <<upstream, raw, msg, meta_state, last_shap, winprob, shap_stream,
                 sent, alpha, returned>>
  /\ ListenerOnly
  /\ log' = Append(log, Ev(raw, "publish_update"))

\* append_stream line 52 done; handle_packet goes on to the broadcast.
AppendStream ==
  /\ listener = "append_stream"
  /\ shap_stream' = Append(shap_stream, [gid |-> raw.gid, ts |-> raw.ts])
  /\ listener' = "broadcast"
  /\ UNCHANGED <<channel, upstream, raw, msg, meta_state, last_shap, winprob,
                 published, sent, alpha, returned>>
  /\ ListenerOnly
  /\ log' = Append(log, Ev(raw, "append_stream"))

\* handle_packet line 46: ws.manager.broadcast is called and takes the lock.
WatcherBroadcast(b) ==
  /\ listener = "broadcast"
  /\ BroadcastCall(b)
  /\ sent' = Append(sent, msg)
  /\ listener' = "broadcasting"
  /\ UNCHANGED <<channel, upstream, raw, msg, meta_state, last_shap, winprob,
                 published, shap_stream, nonWatcher, alpha, returned>>
  /\ log' = Append(log, Ev(raw, "broadcast"))

\* broadcast returned: handle_packet returns and the listener waits for the
\* next message.
WatcherBroadcastDone ==
  /\ listener = "broadcasting"
  /\ bc[Len(sent)] = "returned"
  /\ listener' = "listening"
  /\ UNCHANGED <<channel, upstream, raw, msg, meta_state, last_shap, winprob,
                 published, shap_stream, sent, alpha, returned>>
  /\ ListenerOnly
  /\ log' = Append(log, Ev(raw, "returned"))

InitWatcher ==
  /\ channel = <<>>
  /\ upstream = 0
  /\ listener = "listening"
  /\ raw = NoPayload
  /\ msg = NoMsg
  /\ meta_state = [g \in Gids |-> Unset]
  /\ last_shap = [g \in Gids |-> NoPayload]
  /\ winprob = [g \in Gids |-> NoMsg]
  /\ published = <<>>
  /\ shap_stream = <<>>
  /\ sent = <<>>
  /\ alpha = AlphaNum
  /\ returned = <<>>
  /\ log = <<>>

\* The arguments of MetaModel.update: val is the value line 43 computes for the
\* packet (Overflow: math.exp raises; NaN: the logit is NaN).
MetaPackets ==
  {[kind |-> "packet", gid |-> g, ts |-> 0, val |-> v] :
     g \in Gids, v \in RawProbs \cup {Overflow, NaN}}

\* MetaModel.update called directly on a model (as the unit test does): the
\* call returns the message and stores the smoothed value, or raises at
\* line 43 and stores nothing. upstream counts the calls.
MetaUpdate(p) ==
  /\ upstream < MaxUpdates
  /\ upstream' = upstream + 1
  /\ raw' = [p EXCEPT !.ts = upstream + 1]
  /\ IF p.val = Overflow
     THEN UNCHANGED <<msg, meta_state, returned>>
     ELSE /\ msg' = update([p EXCEPT !.ts = upstream + 1])
          /\ meta_state' = StateAfter(p)
          /\ returned' = Append(returned, update([p EXCEPT !.ts = upstream + 1]))
  /\ UNCHANGED <<channel, listener, last_shap, winprob, published, shap_stream, sent, alpha, log>>
  /\ ListenerOnly

\* MetaModel(MetaModelConfig(alpha=a)) for a smoothing factor a in [0, 1].
InitMeta ==
  /\ channel = <<>>
  /\ upstream = 0
  /\ listener = "listening"
  /\ raw = NoPayload
  /\ msg = NoMsg
  /\ meta_state = [g \in Gids |-> Unset]
  /\ last_shap = [g \in Gids |-> NoPayload]
  /\ winprob = [g \in Gids |-> NoMsg]
  /\ published = <<>>
  /\ shap_stream = <<>>
  /\ sent = <<>>
  /\ alpha \in Alphas
  /\ returned = <<>>
  /\ log = <<>>

NextMeta == \E p \in MetaPackets : MetaUpdate(p)

\* The manager with every websocket of the run already connected.
InitFanoutConnected ==
  /\ connections = Sockets
  /\ lock = Free
  /\ endpoint = [w \in Sockets |-> "open"]
  /\ bc = [b \in Broadcasts |-> "idle"]
  /\ recipients = [b \in Broadcasts |-> {}]
  /\ send = [b \in Broadcasts |-> [w \in Sockets |-> "none"]]
  /\ inbox = [w \in Sockets |-> <<>>]

NextWatcher ==
  \/ \E p \in UpstreamPayloads : UpstreamPublish(p)
  \/ Receive
  \/ CacheLivePacket
  \/ CacheWinprob
  \/ PublishUpdate
  \/ AppendStream
  \/ \E b \in Broadcasts : WatcherBroadcast(b)
  \/ WatcherBroadcastDone
  \/ \E b \in Broadcasts : BroadcastSnapshot(b)
  \/ \E b \in Broadcasts, w \in Sockets, ok \in BOOLEAN : SendText(b, w, ok)
  \/ \E b \in Broadcasts, w \in Sockets : SafeSendDisconnectLock(b, w)
  \/ \E b \in Broadcasts, w \in Sockets : SafeSendDiscard(b, w)
  \/ \E b \in Broadcasts : BroadcastReturn(b)

\* ------------------------------------------------------------ specifications
ReplayInit == InitReplay /\ InitFanout /\ InitScheduler /\ InitWatcher
EngineInit == InitEngine /\ InitFanout /\ InitScheduler /\ InitWatcher
FanoutInit == InitEngine /\ InitFanout /\ InitScheduler /\ InitWatcher
SchedulerInit == InitEngine /\ InitFanout /\ InitScheduler /\ InitWatcher
WatcherInit == InitEngine /\ InitFanoutConnected /\ InitScheduler /\ InitWatcher
ServiceInit == InitEngine /\ InitFanout /\ InitScheduler /\ InitWatcher
SearchInit == InitSearch /\ InitFanout /\ InitScheduler /\ InitWatcher
MetaInit == InitEngine /\ InitFanout /\ InitScheduler /\ InitMeta
MetricsInit == InitMetrics /\ InitFanout /\ InitScheduler /\ InitWatcher
ShapInit == InitEngine /\ InitFanout /\ InitScheduler /\ InitWatcher

\* The replay under a fair event loop: a replay task that can take a step
\* takes it (a ready task is run, a sleep ends, the executor returns the
\* explanation, the sends of a broadcast complete). Calls from outside
\* (register, unregister, start_replay, set_paused) may or may not come.
SpecReplayLive == ReplayInit /\ [][NextReplay]_vars /\ WF_vars(ReplayStep(1))

\* One session with a subscriber that joined before the replay was started.
SubscribedInit == InitSubscribed /\ InitFanout /\ InitScheduler /\ InitWatcher
SpecSubscribed == SubscribedInit /\ [][NextSubscribed]_vars

\* Two sessions of two contests and their subscribers, replayed side by side.
SessionsInit == InitSessions /\ InitFanout /\ InitScheduler /\ InitWatcher
SpecSessions == SessionsInit /\ [][NextReplay]_vars

\* One session and its subscribers, from ingest to the end of the replay.
SpecReplay == ReplayInit /\ [][NextReplay]_vars

\* The registry: ingest calls interleaved with the replays of the sessions.
SpecEngine == EngineInit /\ [][NextEngine]_vars

\* The fan-out manager: endpoints connecting and leaving, broadcasts in flight.
SpecFanout == FanoutInit /\ [][NextFanout]_vars

\* The scheduler: add_job, start and stop calls interleaved with the job loops.
SpecScheduler == SchedulerInit /\ [][NextScheduler]_vars

\* The ingestion pipeline: payloads arriving on the channel, the listener
\* handling them one at a time, its broadcasts going through the manager.
SpecWatcher == WatcherInit /\ [][NextWatcher]_vars

\* The service layer: requests on contest ids, the tasks they create, and the
\* replays of the sessions.
SpecService == ServiceInit /\ [][NextService]_vars

\* search calls on a registry.
SpecSearch == SearchInit /\ [][NextSearch]_vars

\* The smoothing model alone: update calls on a model of any smoothing factor.
SpecMeta == MetaInit /\ [][NextMeta]_vars

\* metrics calls on a session that was replayed.
SpecMetrics == MetricsInit /\ [][NextMetrics]_vars

\* The explanation of a play: compute, then the timeline point of the replay.
SpecShap == ShapInit /\ [][NextShap]_vars

\* ------------------------------------------------------------------- claims
\* Position of an event in the stream of a session: the three events of play p
\* are prediction, shap, timeline, and play p comes before play p + 1.
EventRank(m) ==
  3 * m[2] + (CASE m[1] = "prediction" -> 0 [] m[1] = "shap" -> 1
                [] m[1] = "timeline" -> 2 [] OTHER -> -3)

\* C1: in the queue of every subscriber the replay events come in stream order:
\* prediction, shap, timeline of one play, and every event of play i before any
\* event of play i + 1.
C1_PerPlayOrder ==
  \A c \in Conns : \A i, j \in 2..Len(messages[c]) :
    i < j => EventRank(messages[c][i]) < EventRank(messages[c][j])

\* C1 witness: a subscriber registered for a whole replay of two plays.
C1_Witness ==
  \E c \in Conns :
    messages[c] = << <<"game_state", 0>>, <<"prediction", 1>>, <<"shap", 1>>,
                     <<"timeline", 1>>, <<"prediction", 2>>, <<"shap", 2>>,
                     <<"timeline", 2>> >>

\* C2: while the gate of a session is closed (pause applied, no resume since)
\* its cursor does not advance, whatever the interleaving of pause and resume.
C2_PauseHaltsCursor ==
  [][\A o \in Objs : ~session[o].paused_set => session'[o].index = session[o].index]_vars

\* C3: an ingest with a contest id and key that already created a session
\* returns the registered session; no session is created and the registry, the
\* sessions (plays, cursor, gate, timeline, subscribers) and the queues stay.
C3_IdempotentIngest ==
  [][(ret'.op = "ingest" /\ <<ret'.gid, ret'.key>> \in ingested) =>
       /\ ~ret'.raised
       /\ ret'.result = sessions[ret'.gid]
       /\ ret'.result # NoSession
       /\ session' = session
       /\ sessions' = sessions
       /\ idempotency_keys' = idempotency_keys
       /\ messages' = messages]_vars

\* C3 witness: a repeated ingest returned a session whose replay is under way.
C3_Witness ==
  /\ ret.op = "ingest"
  /\ ret.result \in Objs
  /\ session[ret.result].index > 0
  /\ TaskLive(session[ret.result])

\* C4 as claimed: every ingest of a play list longer than max_queue_depth fails
\* with QueueDepthExceeded.
C4_TooLongAlwaysFails ==
  (ret.op = "ingest" /\ ret.n > max_queue_depth) => ret.raised

\* C4 amended: an ingest of a play list longer than max_queue_depth fails with
\* QueueDepthExceeded unless its key was already seen and the contest already
\* has a session; then it returns that session.
C4_TooLongFailsUnlessRepeat ==
  [][(ret'.op = "ingest" /\ ret'.n > max_queue_depth) =>
       IF ret'.key \in idempotency_keys /\ sessions[ret'.gid] # NoSession
       THEN ~ret'.raised /\ ret'.result = sessions[ret'.gid]
       ELSE ret'.raised]_vars

\* C4 witness: an over-long ingest with a new key was rejected although the
\* contest has a session.
C4_Witness ==
  /\ ret.op = "ingest"
  /\ ret.n > max_queue_depth
  /\ ret.raised
  /\ sessions[ret.gid] # NoSession

\* C5: an ingest that fails with QueueDepthExceeded leaves the session map, the
\* sessions and the set of seen keys as they were.
C5_RejectLeavesRegistry ==
  [][(ret'.op = "ingest" /\ ret'.raised) =>
       /\ sessions' = sessions
       /\ session' = session
       /\ idempotency_keys' = idempotency_keys
       /\ messages' = messages]_vars

\* C5 witness: a rejected ingest for a contest whose session is being replayed.
C5_Witness ==
  /\ ret.op = "ingest"
  /\ ret.raised
  /\ sessions[ret.gid] # NoSession
  /\ session[sessions[ret.gid]].index > 0

\* How many times send_text delivered the payload of broadcast b to socket w.
Delivered(b, w) == Cardinality({i \in 1..Len(inbox[w]) : inbox[w][i] = b})

\* C6: when a broadcast has returned, every websocket of its snapshot whose
\* send did not fail has received the payload exactly once, whatever happened
\* to the sends of the other websockets.
C6_FailureIsolated ==
  \A b \in Broadcasts : bc[b] = "returned" =>
    \A w \in recipients[b] : send[b][w] # "done_failed" => Delivered(b, w) = 1

\* C6 witness: a returned broadcast with one failed send and one delivery.
C6_Witness ==
  \E b \in Broadcasts : \E w, x \in recipients[b] :
    /\ bc[b] = "returned"
    /\ send[b][w] = "done_failed"
    /\ send[b][x] = "done_ok"
    /\ Delivered(b, x) = 1

\* A disconnect(w) has run: by the endpoint or by the _safe_send of a broadcast.
Discarded(w) ==
  endpoint[w] = "closed" \/ \E b \in Broadcasts : send[b][w] = "done_failed"

\* C7: when a broadcast has returned, every websocket whose send failed in it
\* is out of the membership set, and every websocket whose send succeeded and
\* that nobody disconnected is still a member.
C7_SelfHealing ==
  \A b \in Broadcasts : bc[b] = "returned" =>
    \A w \in recipients[b] :
      /\ send[b][w] = "done_failed" => w \notin connections
      /\ (send[b][w] = "done_ok" /\ ~Discarded(w)) => w \in connections

\* C7 witness: a returned broadcast evicted one websocket and kept another.
C7_Witness ==
  \E b \in Broadcasts : \E w, x \in recipients[b] :
    /\ bc[b] = "returned"
    /\ send[b][w] = "done_failed" /\ w \notin connections
    /\ send[b][x] = "done_ok" /\ x \in connections

\* C8: every malformed payload received on the channel (not JSON, or failing
\* LivePacket validation) is skipped and the listener keeps running: the
\* listener is never ended by the malformed payload it has in hand.
C8_MalformedSkipped == ~(listener = "terminated" /\ Malformed(raw))

\* A probability in [0, 1], in units of 1 / Unit.
InUnitInterval(v) == 0 <= v /\ v <= Unit

\* C11: for every packet sequence and every smoothing factor in [0, 1], the
\* smoothed probability returned by update and every stored smoothing state
\* lie in [0, 1].
C11_SmoothedInUnitInterval ==
  /\ msg # NoMsg => InUnitInterval(msg.p_win)
  /\ \A g \in Gids : meta_state[g] # Unset => InUnitInterval(meta_state[g])

\* C12: every update call that returns follows the recurrence of its contest:
\* the first packet of a contest yields its raw probability, a later one
\* (1 - alpha) * prev + alpha * raw with prev the value stored before the call
\* (a NaN operand gives NaN), and the stored value is the p_win returned.
C12_Recurrence ==
  [][(upstream' = upstream + 1 /\ raw'.val # Overflow) =>
       LET g == raw'.gid
           r == raw'.val
           prev == meta_state[g] IN
       /\ msg'.gid = g /\ msg'.raw = r
       /\ meta_state'[g] = msg'.p_win
       /\ prev = Unset => msg'.p_win = r
       /\ (prev # Unset /\ (prev = NaN \/ r = NaN)) => msg'.p_win = NaN
       /\ (prev # Unset /\ prev # NaN /\ r # NaN) =>
            AlphaDen * msg'.p_win = (AlphaDen - alpha) * prev + alpha * r]_vars

\* C12 witness: alpha = 0.5 with raw 0.6 then 0.8 for one contest gives 0.70.
C12_Witness ==
  /\ alpha * 2 = AlphaDen
  /\ upstream = 2
  /\ msg.raw * 5 = 4 * Unit
  /\ msg.p_win * 10 = 7 * Unit
  /\ meta_state[msg.gid] = msg.p_win

\* C13: the packets of a contest are handled one after the other, in the order
\* they arrived on the subscription: every step taken on a packet comes before
\* the listener receives a later packet of the same contest, and the updates
\* of a contest are applied in the order of arrival (the stamp ts).
C13_PerContestFifo ==
  /\ \A i, j \in 1..Len(log) :
       (/\ i < j
        /\ log[i].kind = "packet" /\ log[i].step = "receive"
        /\ log[j].kind = "packet" /\ log[j].step = "receive"
        /\ log[i].gid = log[j].gid) =>
         /\ \A k \in 1..Len(log) :
              (log[k].kind = "packet" /\ log[k].ts = log[i].ts) => k < j
         /\ \E k \in 1..Len(log) :
              log[k].kind = "packet" /\ log[k].ts = log[i].ts /\ log[k].step = "returned"
  /\ \A i, j \in 1..Len(log) :
       (/\ i < j
        /\ log[i].step = "update" /\ log[j].step = "update"
        /\ log[i].gid = log[j].gid) => log[i].ts < log[j].ts

\* C13 witness: two packets of one contest were both smoothed, the second
\* against the value stored by the first.
C13_Witness ==
  \E i, j \in 1..Len(log) :
    /\ i < j
    /\ log[i].step = "update" /\ log[j].step = "update"
    /\ log[i].gid = log[j].gid
    /\ \E k \in 1..Len(log) : log[k].ts = log[i].ts /\ log[k].step = "returned"

\* C14: the replay cursor of every session stays within 0..len(plays), and no
\* step (replay, pause, resume, start_replay, ingest, register, unregister)
\* decreases the cursor of a session that exists.
C14_CursorMonotone ==
  /\ [](\A o \in Objs : 0 <= session[o].index /\ session[o].index <= Len(session[o].plays))
  /\ [][\A o \in Objs : session'[o].index >= session[o].index]_vars

\* C14 witness: a replay that was paused on its way has reached the end of
\* the play list.
C14_Witness ==
  \E o \in Objs :
    /\ session[o].index = Len(session[o].plays)
    /\ session[o].index > 0
    /\ session[o].task = "done"
    /\ ~session[o].paused_set

\* C15: a contest has at most one live session: every session whose replay
\* task is running (and so emits events) is the session the registry maps its
\* contest id to.
C15_OneLiveSession ==
  \A o \in Objs : TaskLive(session[o]) => sessions[session[o].game_id] = o

\* C16: for every session of the registry, metrics reports queue_depth equal
\* to len(plays) minus the cursor, within 0..max_queue_depth, and 0 once the
\* replay has completed.
C16_QueueDepth ==
  (ret.op = "get_metrics" /\ ret.error = "none") =>
    LET s == session[sessions[ret.gid]] IN
    /\ ret.queue_depth = Len(s.plays) - s.index
    /\ 0 <= ret.queue_depth /\ ret.queue_depth <= max_queue_depth
    /\ ret.max_queue_depth = max_queue_depth
    /\ s.task = "done" => ret.queue_depth = 0

\* C16 witness: metrics called after the replay of a session with a play has
\* completed.
C16_Witness ==
  /\ ret.op = "get_metrics" /\ ret.error = "none"
  /\ session[sessions[ret.gid]].task = "done"
  /\ Len(session[sessions[ret.gid]].plays) > 0
  /\ ret.queue_depth = 0

\* C17: search returns at most limit plays, for every limit >= 0, and every
\* play it returns contains the query, case-insensitively, in its fields.
C17_SearchWithinLimit ==
  ret.op = "search" =>
    /\ Len(ret.result) <= ret.limit
    /\ \A k \in 1..Len(ret.result) : Matches(ret.result[k], ret.query)

\* The requests that look a contest id up in the registry.
LookupOps == {"get", "get_metrics", "service_start_replay", "pause_game"}

\* C18: get, metrics, start_replay and pause_game on a contest id without a
\* session fail (KeyError from the engine, NotFound from the service layer)
\* and leave the registry as it is: no session and no task is created.
C18_UnknownContestFails ==
  [][(ret'.op \in LookupOps /\ ~Known(ret'.gid)) =>
       /\ ret'.error = IF ret'.op = "get" THEN "KeyError" ELSE "NotFound"
       /\ UNCHANGED <<sessions, idempotency_keys, session, messages, calls>>]_vars

\* C18 witness: pause_game on a contest id without a session raised NotFound.
C18_Witness ==
  /\ ret.op = "pause_game"
  /\ ret.error = "NotFound"
  /\ ~Known(ret.gid)

\* C19: a session never has two replay tasks that are not done, and a
\* start_replay on a session whose task is still running creates no task and
\* leaves that task as it is, also when the calls come from tasks the service
\* layer created back to back.
C19_SingleReplayTask ==
  /\ [](\A o \in Objs : session[o].live_tasks <= 1)
  /\ [][(ret'.op = "start_replay" /\ TaskLive(session[ret'.o])) =>
          /\ ~ret'.created
          /\ session'[ret'.o].task = session[ret'.o].task
          /\ session'[ret'.o].live_tasks = session[ret'.o].live_tasks]_vars

\* C19 witness: two start requests were issued through the service layer back
\* to back; the second ran before the task created by the first had begun.
C19_Witness ==
  /\ ret.op = "start_replay"
  /\ ~ret.created
  /\ session[ret.o].task = "ready"
  /\ session[ret.o].live_tasks = 1

\* C20: the queue of every subscriber begins with its game_state message: no
\* prediction, shap or timeline event is delivered before it, also when the
\* subscriber registers while the replay is emitting events.
C20_GameStateFirst ==
  \A c \in Conns :
    /\ Len(messages[c]) >= 1
    /\ messages[c][1][1] = "game_state"
    /\ \A k \in 2..Len(messages[c]) : messages[c][k][1] # "game_state"

\* C20 witness: a subscriber registered in the middle of a play; the first
\* replay event it received, after game_state, is not a prediction.
C20_Witness ==
  \E c \in Conns :
    /\ Len(messages[c]) >= 2
    /\ messages[c][1][1] = "game_state"
    /\ messages[c][2][1] \in {"shap", "timeline"}

\* The loops that are not done.
LiveTasks == {t \in 1..Len(tasks) : tasks[t].st \notin TaskDone}

\* C9: once stop() has returned, and until a later start(), every job loop
\* that start() launched is done: cancelled and finished.
C9_StopCancelsAll == (stopper.pc = "returned" /\ ~running) => LiveTasks = {}

\* C10: a start() call made while the scheduler is running changes nothing (no
\* loop is created), and a registered Job never has more than one loop that
\* is not done.
C10_StartTwiceNoop ==
  /\ [][(called' = "start" /\ running) =>
          UNCHANGED <<jobs, job_objs, tasks, running, stopper>>]_vars
  /\ [](\A i \in 1..Len(jobs) :
          Cardinality({t \in LiveTasks : tasks[t].job = jobs[i]}) <= 1)

\* C10 witness: start() was called while the loops of two jobs were running.
C10_Witness ==
  /\ called = "start"
  /\ running
  /\ Len(tasks) = 2
  /\ \A t \in 1..Len(tasks) : tasks[t].st \in {"sleep", "work"}

\* A session whose replay is between plays with the cursor at the end of the
\* play list: the last play went through its three events.
Completed(s) ==
  s.index = Len(s.plays) /\ s.task \in {"none", "ready", "loop_sleep", "done"}

\* C21: once the replay of a session has processed its last play, the task
\* ends normally (its next step is the return of _run_replay, never the gate
\* and never a dequeue) and the session emits nothing more: no latency is
\* recorded, no timeline point is appended and no queue of a subscriber gets a
\* message, whatever start_replay, pause or resume is called afterwards.
C21_CompletedIsSilent ==
  [][\A o \in Objs :
       Completed(session[o]) =>
         /\ Completed(session'[o])
         /\ session'[o].task # session[o].task => session'[o].task \in {"done", "ready"}
         /\ session'[o].timeline = session[o].timeline
         /\ session'[o].latencies = session[o].latencies
         /\ session'[o].prediction_latencies = session[o].prediction_latencies
         /\ session'[o].index = session[o].index
         /\ \A c \in session[o].connections : messages'[c] = messages[c]]_vars

\* A session that replayed all its plays to a subscriber, was paused, and on
\* which start_replay was then called again: the new task is about to run.
C21_Witness ==
  \E o \in Objs :
    /\ Len(session[o].plays) >= 1
    /\ session[o].index = Len(session[o].plays)
    /\ Len(session[o].timeline) = Len(session[o].plays)
    /\ session[o].task = "ready"
    /\ ~session[o].paused_set
    /\ \E c \in session[o].connections :
         messages[c][Len(messages[c])] = <<"timeline", Len(session[o].plays)>>

\* v is the element at index k (from 0) of the samples in ascending order: it
\* is a sample, at most k samples are smaller and more than k are not larger.
IsOrderStatistic(samples, k, v) ==
  /\ \E i \in DOMAIN samples : samples[i] = v
  /\ Cardinality({i \in DOMAIN samples : samples[i] < v}) <= k
  /\ Cardinality({i \in DOMAIN samples : samples[i] <= v}) > k

\* The p95 the metrics should report for a latency list: 0 for the empty
\* list, otherwise the element at index max(floor(0.95 n) - 1, 0).
IsP95(samples, v) ==
  LET n == Len(samples)
      f == (95 * n) \div 100 IN
  IF n = 0 THEN v = 0
  ELSE IsOrderStatistic(samples, IF f - 1 > 0 THEN f - 1 ELSE 0, v)

\* C22: metrics reports as p95 of a latency list of length n the element at
\* index max(floor(0.95 n) - 1, 0) of the samples sorted ascending, and 0 for
\* the empty list; this holds for the explanation and for the prediction list.
C22_P95 ==
  (ret.op = "get_metrics" /\ ret.error = "none") =>
    /\ IsP95(session[sessions[ret.gid]].latencies, ret.p95_shap_latency_ms)
    /\ IsP95(session[sessions[ret.gid]].prediction_latencies, ret.prediction_latency_p95_ms)

\* metrics on the samples 1..10, recorded ascending in one list and descending
\* in the other, reported 9 for both.
C22_Witness ==
  /\ ret.op = "get_metrics" /\ ret.error = "none"
  /\ session[sessions[ret.gid]].latencies = TenSamples
  /\ session[sessions[ret.gid]].prediction_latencies = TenSamplesDescending
  /\ ret.p95_shap_latency_ms = 9
  /\ ret.prediction_latency_p95_ms = 9

\* The pause_game requests for the session o whose task has not run yet.
PendingPauses(o) == SelectSeq(calls, LAMBDA c : c.op = "pause_game" /\ c.o = o)

\* The last pause_game call for the session o that returned asked for a
\* pause: the newest request is still a task that waits to run, or it ran and
\* closed the gate.
PauseRequested(o) ==
  IF PendingPauses(o) # <<>> THEN PendingPauses(o)[Len(PendingPauses(o))].paused
  ELSE ~session[o].paused_set

\* C23: after pause_game(paused=True) has returned for a session, and until a
\* resume is requested, the replay loop of the session starts no new play:
\* the cursor does not advance.
C23_PauseGameHaltsCursor ==
  [][\A o \in Objs :
       (PauseRequested(o) /\ PauseRequested(o)') =>
          session'[o].index = session[o].index]_vars

\* C24: the TimelinePoint of a play carries as shap_sum the sum of the
\* magnitudes of the play's top-k contributions, negative ones included.
C24_ShapSumOfMagnitudes ==
  ret.op = "timeline_point" => ret.shap_sum = SumMagnitudes(ret.top_features)

\* C25: compute returns one contribution per feature of the play, sorted by
\* non-increasing absolute value, and top_features is the first
\* min(k, number of features) entries of that list.
C25_RankedContributions ==
  ret.op = "compute" =>
    LET l == ret.shap_values
        n == Cardinality(DOMAIN ret.play.features)
        m == IF ret.shap_top_k < n THEN ret.shap_top_k ELSE n IN
    /\ Len(l) = n
    /\ \A f \in DOMAIN ret.play.features :
         Cardinality({i \in DOMAIN l : l[i].feature = f}) = 1
    /\ \A i \in 1..(Len(l) - 1) : AtLeast(Abs(l[i].value), Abs(l[i + 1].value))
    /\ Len(ret.top_features) = m
    /\ \A i \in 1..m : ret.top_features[i] = l[i]

\* C26: a broadcast call never gets stuck and ends in its return, whatever
\* its sends do: while it delivers it does not hold the lock, as long as it is
\* in flight some task of the manager can take a step (so the disconnect after
\* a failed send gets the lock), and when every send of its snapshot has ended,
\* by delivering or by raising, the call can return.
C26_BroadcastReturns ==
  \A b \in Broadcasts :
    /\ bc[b] = "gather" => lock # <<"broadcast", b>>
    /\ bc[b] \in {"snapshot", "gather"} => ENABLED FanoutTaskStep
    /\ (bc[b] = "gather" /\ \A w \in recipients[b] : send[b][w] \in {"done_ok", "done_failed"})
         => ENABLED BroadcastReturn(b)

\* A broadcast returned although every send of its snapshot failed, with two
\* failed sends that each had to take the lock for their disconnect.
C26_Witness ==
  \E b \in Broadcasts :
    /\ bc[b] = "returned"
    /\ Cardinality(recipients[b]) >= 2
    /\ \A w \in recipients[b] : send[b][w] = "done_failed"
    /\ lock = Free

\* The tasks that are inside an `async with self._lock` block: a connect about
\* to add, a disconnect about to discard (called by the endpoint or by a
\* _safe_send), a broadcast about to take its snapshot.
InLockBlock ==
  {<<"connect", w>> : w \in {x \in Sockets : endpoint[x] = "adding"}}
    \cup {<<"disconnect", w>> : w \in {x \in Sockets : endpoint[x] = "removing"}}
    \cup {<<"broadcast", b>> : b \in {a \in Broadcasts : bc[a] = "snapshot"}}
    \cup {t \in {<<"safe_send", b, w>> : b \in Broadcasts, w \in Sockets} :
            send[t[2]][t[3]] = "removing"}

\* C27: every read or write of the membership set happens while its task
\* holds the lock, and no two of them are in progress at the same time: a task
\* inside a lock block is the holder of the lock, and the set is added to,
\* discarded from or copied only by a step of the holder.
C27_MembershipUnderLock ==
  /\ [](\A t \in InLockBlock : lock = t)
  /\ [][(connections' # connections \/ recipients' # recipients)
          => (lock \in InLockBlock /\ lock' = Free)]_vars

\* The disconnect of a failed send is inside its lock block while the
\* endpoint of that websocket and a second websocket are connected: their
\* disconnect and any further connect have to wait.
C27_Witness ==
  \E b \in Broadcasts : \E w, x \in Sockets :
    /\ w # x
    /\ send[b][w] = "removing" /\ lock = <<"safe_send", b, w>>
    /\ endpoint[w] = "open" /\ endpoint[x] = "open"
    /\ send[b][x] = "pending"

\* The steps of handle_packet on a packet, in the order of lines 39-46.
HandlingSteps ==
  <<"receive", "cache_live_packet", "update", "cache_winprob", "publish_update",
    "append_stream", "broadcast", "returned">>

\* The steps the history holds for the packet stamped t, in order.
StepsOf(t) ==
  LET l == SelectSeq(log, LAMBDA e : e.kind = "packet" /\ e.ts = t) IN
  [i \in 1..Len(l) |-> l[i].step]

IsPrefix(a, b) == Len(a) <= Len(b) /\ a = SubSeq(b, 1, Len(a))

\* The listener is past the step, in the handling of the packet in hand.
Past(step) ==
  CASE step = "update" ->
         listener \in {"cache_winprob", "publish", "append_stream", "broadcast", "broadcasting"}
    [] step = "cache_winprob" ->
         listener \in {"publish", "append_stream", "broadcast", "broadcasting"}
    [] step = "publish_update" -> listener \in {"append_stream", "broadcast", "broadcasting"}
    [] step = "append_stream" -> listener \in {"broadcast", "broadcasting"}
    [] step = "broadcast" -> listener = "broadcasting"
    [] OTHER -> FALSE

\* C28: handle_packet takes its steps on a valid packet in the order cache raw
\* packet, smoothing update, cache smoothed message, publish, append to the
\* audit stream, broadcast, each done before the next begins (the steps taken
\* so far are the first steps of that order, or end where a step raised); and
\* what is cached, published and broadcast is the message the update produced
\* for the packet in hand, what is appended is that packet.
C28_StepsInOrder ==
  /\ \A t \in 1..upstream :
       LET st == StepsOf(t) IN
       \/ IsPrefix(st, HandlingSteps)
       \/ /\ st # <<>>
          /\ st[Len(st)] = "raised"
          /\ IsPrefix(SubSeq(st, 1, Len(st) - 1), HandlingSteps)
  /\ Past("update") =>
       /\ msg.gid = raw.gid /\ msg.ts = raw.ts
       /\ msg.p_win = meta_state[raw.gid]
       /\ last_shap[raw.gid] = raw
  /\ Past("cache_winprob") => winprob[raw.gid] = msg
  /\ Past("publish_update") => published # <<>> /\ published[Len(published)] = msg
  /\ Past("append_stream") =>
       /\ shap_stream # <<>>
       /\ shap_stream[Len(shap_stream)] = [gid |-> raw.gid, ts |-> raw.ts]
  /\ Past("broadcast") => sent # <<>> /\ sent[Len(sent)] = msg

\* A packet went through all the steps and its handling returned; the cache,
\* the channel, the stream and the manager hold what belongs to it.
C28_Witness ==
  \E t \in 1..upstream :
    /\ StepsOf(t) = HandlingSteps
    /\ Len(published) = 1 /\ Len(sent) = 1 /\ Len(shap_stream) = 1
    /\ published[1].ts = t /\ sent[1] = published[1] /\ shap_stream[1].ts = t
    /\ winprob[published[1].gid] = published[1]
    /\ published[1].p_win \in 1..Unit

\* The payload is not a JSON object with every required field of LivePacket.
LacksField(p) == \E f \in LivePacketFields : f \notin Fields(p)

\* The cache, the smoothing state, the outbound channel, the audit stream and
\* the messages handed to the manager.
PipelineState == <<last_shap, winprob, meta_state, published, shap_stream, sent>>

\* C29: a malformed payload has no effect on the pipeline state: the step that
\* takes it from the channel changes nothing of the cache, the smoothing
\* state, the published messages, the audit stream and the broadcasts and
\* starts no handling step, the history holds no step for it but its receipt
\* and the error raised, and no step changes the pipeline state while the
\* payload in hand is malformed.
C29_MalformedHasNoEffect ==
  /\ [][(channel # <<>> /\ channel' = Tail(channel) /\ LacksField(Head(channel)))
          => (UNCHANGED PipelineState /\ UNCHANGED <<msg, bc>>
              /\ listener' \in {"listening", "terminated"})]_vars
  /\ [](\A i \in DOMAIN log : LacksField(log[i]) => log[i].step \in {"receive", "raised"})
  /\ [][PipelineState' # PipelineState => ~LacksField(raw)]_vars

\* A payload that is not JSON was taken after a packet had gone through the
\* pipeline: the state is what the packet left.
C29_Witness ==
  /\ raw.kind = "garbage"
  /\ log # <<>> /\ log[Len(log)] = Ev(raw, "raised")
  /\ Len(published) = 1 /\ Len(shap_stream) = 1 /\ Len(sent) = 1
  /\ winprob[published[1].gid] = published[1]
  /\ meta_state[published[1].gid] = published[1].p_win

\* C30: an ingest that is not an idempotent repeat (its key is new, or the
\* contest has no session) and whose play list is within the maximum
\* constructs a new session with cursor 0, open gate, empty timeline, no
\* subscribers and no replay task, makes it the session of the contest in the
\* registry in place of any prior one, returns it, and records the key; the
\* sessions constructed before are left as they are.
C30_IngestCreatesSession ==
  [][(/\ ret'.op = "ingest"
      /\ ~(ret'.key \in idempotency_keys /\ sessions[ret'.gid] # NoSession)
      /\ ret'.n <= max_queue_depth)
     => LET o == Len(session) + 1 IN
        /\ ~ret'.raised
        /\ Len(session') = o
        /\ \A p \in Objs : session'[p] = session[p]
        /\ session'[o].game_id = ret'.gid
        /\ Len(session'[o].plays) = ret'.n
        /\ session'[o].index = 0
        /\ session'[o].paused_set
        /\ session'[o].timeline = <<>>
        /\ session'[o].connections = {}
        /\ session'[o].task = "none"
        /\ sessions'[ret'.gid] = o
        /\ ret'.result = o
        /\ \A g \in Contests \ {ret'.gid} : sessions'[g] = sessions[g]
        /\ idempotency_keys' = idempotency_keys \cup {ret'.key}]_vars

\* An ingest with a new key replaced a session that has a subscriber, a
\* closed gate and a play behind it by a fresh one.
C30_Witness ==
  /\ ret.op = "ingest" /\ ~ret.raised
  /\ ret.result = Len(session) /\ ret.result >= 2
  /\ sessions[ret.gid] = ret.result
  /\ session[ret.result].index = 0 /\ session[ret.result].connections = {}
  /\ session[ret.result].paused_set
  /\ \E p \in 1..(ret.result - 1) :
       /\ session[p].game_id = ret.gid
       /\ session[p].index >= 1
       /\ session[p].connections # {}
       /\ ~session[p].paused_set

\* C31: a job loop begins its first unit of work from the state start() left
\* it in, with no wait before it; it begins every later unit only from the
\* sleep of the interval that followed the end of the unit before; so a loop
\* never has two units of work in progress.
C31_WorkThenWait ==
  /\ [][\A t \in 1..Len(tasks) :
          tasks'[t].runs # tasks[t].runs =>
            /\ tasks'[t].runs = tasks[t].runs + 1
            /\ tasks[t].st = (IF tasks[t].runs = 0 THEN "ready" ELSE "sleep")]_vars
  /\ [](\A t \in 1..Len(tasks) :
          /\ tasks[t].st = "sleep" => tasks[t].runs >= 1
          /\ tasks[t].st = "work" => tasks[t].runs >= 1
          /\ tasks[t].st = "ready" => tasks[t].runs = 0)

\* C31 witness: a loop is in its second unit of work, which it began after
\* the first one had ended and the interval had been slept.
C31_Witness ==
  \E t \in 1..Len(tasks) : tasks[t].runs = 2 /\ tasks[t].st = "work"

\* The messages update returned for the contest g, in the order of the calls.
ReturnedFor(g) == SelectSeq(returned, LAMBDA m : m.gid = g)

\* The smoothed outputs of a model that is given the raw values rs of one
\* contest and nothing else; prev is what it has stored (Unset: nothing).
RECURSIVE AloneFrom(_, _)
AloneFrom(prev, rs) ==
  IF rs = <<>> THEN <<>>
  ELSE LET v == IF prev = Unset THEN rs[1] ELSE Smooth(prev, rs[1]) IN
       <<v>> \o AloneFrom(v, Tail(rs))

\* C32: an update call changes the stored state of no contest but the one of
\* its packet, and for every contest the smoothed outputs of its packets, in
\* order, are those of a model that processed the packets of that contest
\* alone, however the packets of the contests were interleaved.
C32_ContestsIndependent ==
  /\ [][\A g \in Gids :
          meta_state'[g] # meta_state[g] =>
            /\ Len(returned') = Len(returned) + 1
            /\ returned'[Len(returned')].gid = g]_vars
  /\ [](\A g \in Gids :
          LET ms == ReturnedFor(g) IN
          [i \in 1..Len(ms) |-> ms[i].p_win] =
            AloneFrom(Unset, [i \in 1..Len(ms) |-> ms[i].raw]))

\* C32 witness: a packet of another contest was processed between two packets
\* of one contest, with a smoothing factor strictly between 0 and 1 and raw
\* values that differ, so that the third output depends on the first.
C32_Witness ==
  /\ Len(returned) = 3
  /\ returned[1].gid = returned[3].gid
  /\ returned[2].gid # returned[1].gid
  /\ 0 < alpha /\ alpha < AlphaDen
  /\ \A i \in 1..3 : returned[i].raw \in RawProbs
  /\ returned[1].raw # returned[3].raw
  /\ returned[2].raw # returned[1].raw
  /\ returned[3].p_win \notin {returned[1].raw, returned[2].raw, returned[3].raw}
  /\ meta_state[returned[2].gid] = returned[2].p_win

\* C33: the pause requests made through pause_game for a session take effect
\* in the order they were made. The request that is the last to take effect
\* is always the last one made: it changes only when pause_game is called,
\* to the request of that call, and running the tasks never changes it. So
\* after pause_game(paused=True), pause_game(paused=False) and the completion
\* of both tasks the gate of the session is open.
C33_PausesInOrder ==
  [][\A o \in Objs :
       PauseRequested(o)' # PauseRequested(o) =>
         calls' = Append(calls, [op |-> "pause_game", o |-> o,
                                 paused |-> PauseRequested(o)'])]_vars

\* C33 witness: pause_game(paused=True) and pause_game(paused=False) were
\* called back to back; the task of the first has run and closed the gate,
\* the task of the second is the only one left to run.
C33_Witness ==
  \E o \in Objs :
    /\ ~session[o].paused_set
    /\ calls = <<[op |-> "pause_game", o |-> o, paused |-> FALSE]>>

\* The play ids of the session s.
PlayIds(s) == {s.plays[i] : i \in 1..Len(s.plays)}

\* C34: sessions are independent. A step changes at most one session, so a
\* pause, a resume or the completion of one session leaves the cursor, gate,
\* timeline and subscribers of every other session as they are; an event is
\* delivered by the step of one session to the connections of its snapshot,
\* and a connection registered on a session holds events of that session's
\* plays only; a replay task that does not wait at its own closed gate can
\* always take its next step, whatever the state of the other sessions.
C34_SessionsIndependent ==
  /\ [][\A o \in Objs :
          session'[o] # session[o] =>
            \A q \in Objs \ {o} : session'[q] = session[q]]_vars
  /\ [][\A c \in Conns :
          messages'[c] # messages[c] =>
            \E o \in Objs :
              /\ c \in session[o].recipients
              /\ session'[o] # session[o]
              /\ \E kind \in {"prediction", "shap", "timeline"} :
                   messages'[c] = Append(messages[c], <<kind, session[o].play>>)]_vars
  /\ [](\A o \in Objs :
          /\ \A c \in session[o].connections : \A i \in 2..Len(messages[c]) :
               messages[c][i][2] \in PlayIds(session[o])
          /\ \A q \in Objs \ {o} : session[o].recipients \cap session[q].connections = {}
          /\ session[o].task = "gate" => ~session[o].paused_set
          /\ (TaskLive(session[o]) /\ session[o].task # "gate") => ENABLED ReplayStep(o))

\* C34 witness: the session of one contest is paused at its gate with its
\* cursor at 0 while the session of the other contest has replayed its play
\* and delivered the three events of it to its subscriber.
C34_Witness ==
  \E o, q \in Objs : \E c \in session[o].connections :
    /\ o # q
    /\ session[q].task = "gate" /\ session[q].index = 0 /\ session[q].timeline = <<>>
    /\ session[o].index = 1
    /\ messages[c] = << <<"game_state", 0>>, <<"prediction", session[o].play>>,
                        <<"shap", session[o].play>>, <<"timeline", session[o].play>> >>

\* C35: under a fair event loop, when the gate of the session is not left
\* closed forever (it is open again and again), a replay task that was
\* started reaches the end of the play list and terminates, however many
\* pauses and resumes come in between.
C35_ReplayCompletes ==
  ([]<>session[1].paused_set) =>
     [](TaskLive(session[1]) =>
          <>(session[1].task = "done" /\ session[1].index = Len(session[1].plays)))

\* C35 witness: a replay of two plays was paused after its first play, waited
\* at the closed gate and was woken by the resume.
C35_Witness ==
  /\ Len(session[1].plays) = 2
  /\ session[1].index = 1
  /\ session[1].task = "woken"
  /\ session[1].paused_set

\* C36: in every reachable state, for every session, the explanation latency
\* list is no longer than the prediction latency list, which is no longer
\* than the cursor, which is at most the number of plays, which is at most
\* settings.max_queue_depth.
C36_LatenciesBounded ==
  \A o \in Objs :
    /\ Len(session[o].latencies) <= Len(session[o].prediction_latencies)
    /\ Len(session[o].prediction_latencies) <= session[o].index
    /\ session[o].index <= Len(session[o].plays)
    /\ Len(session[o].plays) <= max_queue_depth

\* C36 witness: a session created by ingest is in the middle of its play, the
\* prediction latency recorded and the explanation not yet computed.
C36_Witness ==
  \E o \in Objs :
    /\ session[o].task = "shap_compute"
    /\ Len(session[o].latencies) = 0
    /\ Len(session[o].prediction_latencies) = 1
    /\ session[o].index = 1

\* The events of a whole replay of the plays ps, in order: prediction, shap
\* and timeline of the first play, then of the second, and so on.
ExpectedEvents(ps) ==
  [k \in 1..(3 * Len(ps)) |->
     <<(CASE (k - 1) % 3 = 0 -> "prediction"
          [] (k - 1) % 3 = 1 -> "shap"
          [] OTHER -> "timeline"),
       ps[((k - 1) \div 3) + 1]>>]

\* C37: every play of a session is dequeued once, in play-list order, also
\* when start_replay is called again after the replay has completed. What
\* the subscriber that joined before the replay was started has received is
\* always the beginning of: game_state, then prediction, shap and timeline of
\* each play in play-list order; and when the replay is complete and the
\* subscriber was never unregistered, it has received exactly all of it.
C37_EachPlayOnce ==
  LET all == NewQueue \o ExpectedEvents(session[1].plays) IN
  /\ Len(messages[1]) <= Len(all)
  /\ messages[1] = SubSeq(all, 1, Len(messages[1]))
  /\ (1 \in session[1].connections /\ Completed(session[1])) => messages[1] = all

\* C37 witness: the replay of two plays completed with the subscriber
\* registered all along, and start_replay was called again and created a task.
C37_Witness ==
  /\ ret.op = "start_replay" /\ ret.created
  /\ session[1].index = 2 /\ Len(session[1].plays) = 2
  /\ 1 \in session[1].connections
  /\ Len(messages[1]) = 7

\* C38: a stop() call never ends with the error of a job whose unit of work
\* raised: it goes on over the other jobs, returns, and leaves the scheduler
\* not running.
C38_StopSurvivesFailedJob ==
  /\ stopper.pc = "raised" => tasks[stopper.task].st # "raised"
  /\ (stopper.pc = "returned" /\ called = "stop") => ~running

\* C39: once stop() has returned, no loop is left running for a Job that
\* add_job took out of the registry by registering its name again.
C39_ReplacedJobStopped ==
  (stopper.pc = "returned" /\ ~running) =>
     \A t \in LiveTasks : \E i \in 1..Len(jobs) : jobs[i] = tasks[t].job

\* C40: the message the pipeline publishes for a packet never comes back to
\* the pipeline as an input: no WinProbMsg payload is delivered to the
\* listener's subscription, and the listener never has one in hand.
C40_NoSelfDelivery ==
  /\ \A i \in 1..Len(channel) : channel[i].kind # "winprob"
  /\ raw.kind # "winprob"

====
